---- MODULE Spec2Model ----
(***************************************************************************)
(* A model of lib/FileSystemInfo.js: the per-path fact caches, the          *)
(* coalescing read queues, snapshot creation, merging and validation, and   *)
(* the managed-item folding.                                                *)
(*                                                                          *)
(* JavaScript values are tagged records ([k |-> kind, ...]) so that values  *)
(* of different JavaScript types can be stored in one slot and compared.    *)
(* Paths are sequences of one-character strings, because getManagedItem     *)
(* inspects character codes.  A Map is a total function over the key        *)
(* universe in which the value Absent marks a key the Map does not hold.    *)
(***************************************************************************)
EXTENDS Integers, Sequences, FiniteSets, TLC

VARIABLES
    \* getManagedItem(managedPath, path)
    miPath, miItem,
    \* mergeSnapshots(snapshot1, snapshot2)
    snapshot1, snapshot2, merged,
    \* the module-level accuracy estimate
    FS_ACCURACY,
    \* the caches of a FileSystemInfo
    _fileTimestamps, _fileHashes, _contextHashes, _managedItems,
    \* its queues
    fileTimestampQueue, fileHashQueue, contextHashQueue, managedItemQueue,
    \* callbacks a queue has deferred to the next tick
    nextTick,
    \* what the file system answered to the call each processor made
    fsAnswers,
    \* the createSnapshot call: its locals, and the invocations of its callback
    cs, createCallbacks,
    \* the checkSnapshotValid call: its locals, and the invocations of its callback
    ck, checkCallbacks,
    \* the getFileHash calls made, the invocations of their callbacks, and the
    \* number of times _readFileHash has run for each path
    hashCalls, hashCallbacks, readFileHashRuns,
    \* the PackFileCacheStrategy: the pack file, the pack promise, the pack it
    \* resolved to, the clock, the latest call and the number of calls made
    packFile, packPromise, pack, now, lastCall, opsDone,
    \* the etags, entries, lastAccess and buildSnapshot the strategy last read
    \* from or wrote to the pack file
    packBase,
    \* the asyncLib.map call of each _readContextHash under way: the files it
    \* maps over, what fs.stat answered for each, and the hashes called back
    contextReads,
    \* what the hash of createHash does with an update that is not a string
    hasher,
    \* the resolveBuildDependencies call: its sets, its queue, the invocations
    \* of its callback and the items pushed
    rbd,
    \* the number of times the process has been started again on the pack file
    restarts,
    \* the lazy loads get has started and not yet unpacked, and for each
    \* identifier the latest set that took effect
    loads,
    \* the entry addFileTimestamps last stored for each path, and the
    \* invocations of the callbacks of getFileTimestamp
    seeds

pureVars == <<miPath, miItem, snapshot1, snapshot2, merged>>

fsiVars == <<FS_ACCURACY, _fileTimestamps, _fileHashes, _contextHashes, _managedItems,
             fileTimestampQueue, fileHashQueue, contextHashQueue, managedItemQueue,
             nextTick, fsAnswers, cs, createCallbacks, ck, checkCallbacks,
             hashCalls, hashCallbacks, readFileHashRuns,
             packFile, packPromise, pack, now, lastCall, opsDone, packBase,
             contextReads, hasher, rbd, restarts, loads, seeds>>

vars == <<pureVars, fsiVars>>

----------------------------------------------------------------------------
(* JavaScript values *)

Undefined == [k |-> "undefined"]
Null == [k |-> "null"]
\* the string "error" that snapshots store for a failed read
Error == [k |-> "string", v |-> "error"]
\* a key a Map does not hold
Absent == [k |-> "absent"]
\* the value of a variable before the call that sets it has run
NotRun == [k |-> "notrun"]
\* an uncaught TypeError
TypeError == [k |-> "TypeError"]

Num(n) == [k |-> "number", v |-> n]
Str(s) == [k |-> "string", v |-> s]
\* timestamp of a FileSystemInfoEntry made from a directory (line 761)
TimestampUndefined == -1
Entry(safeTime, timestamp) == [k |-> "entry", safeTime |-> safeTime, timestamp |-> timestamp]

\* the value jobs takes once a check is invalid (line 599)
NaN == [k |-> "NaN"]

Falsy(v) ==
    \/ v.k \in {"undefined", "null", "NaN"}
    \/ (v.k = "number" /\ v.v = 0)
    \/ (v.k = "string" /\ v.v = "")
Truthy(v) == ~Falsy(v)

----------------------------------------------------------------------------
(* Paths *)

Slash == "/"
Backslash == "\\"
AtSign == "@"

\* path.startsWith(prefix)
StartsWith(path, prefix) ==
    /\ Len(prefix) <= Len(path)
    /\ SubSeq(path, 1, Len(prefix)) = prefix

\* path.slice(0, n)
SliceTo(path, n) == SubSeq(path, 1, n)

\* the while loop of getManagedItem: the index at which it stops
RECURSIVE ManagedItemLoop(_, _, _)
ManagedItemLoop(remaining, i, slashes) ==
    IF i >= Len(remaining) THEN i
    ELSE LET c == remaining[i + 1] IN
         IF c \in {Slash, Backslash}
         THEN IF slashes - 1 = 0 THEN i
              ELSE ManagedItemLoop(remaining, i + 1, slashes - 1)
         ELSE IF c = AtSign
         THEN ManagedItemLoop(remaining, i + 1, slashes + 1)
         ELSE ManagedItemLoop(remaining, i + 1, slashes)

getManagedItem(managedPath, path) ==
    LET remaining == SubSeq(path, Len(managedPath) + 1, Len(path))
        i == ManagedItemLoop(remaining, 0, 2)
    IN  SliceTo(path, Len(managedPath) + i)

\* managedPaths of the constructor (line 119): one managed root, "/n"
managedPaths == << <<Slash, "n">> >>

\* join(fs, p, "_").slice(0, -1): the root followed by a separator
managedPathsWithSlash ==
    [i \in 1..Len(managedPaths) |-> managedPaths[i] \o <<Slash>>]

----------------------------------------------------------------------------
(* Maps and snapshots *)

\* the six Map fields of a Snapshot
MapFields == {"fileTimestamps", "fileHashes", "contextTimestamps",
              "contextHashes", "missingTimestamps", "managedItemInfo"}

MapSize(m) == Cardinality({key \in DOMAIN m : m[key] # Absent})
MapKeys(m) == {key \in DOMAIN m : m[key] # Absent}
JsMap(m) == [k |-> "map", m |-> m]

\* b.size of an undefined b throws; new Map(undefined) is an empty Map
mergeMaps(a, b) ==
    IF b.k = "undefined" THEN TypeError
    ELSE IF MapSize(b.m) = 0 THEN a
    ELSE JsMap([key \in DOMAIN b.m |->
                  IF b.m[key] # Absent THEN b.m[key]
                  ELSE IF a.k = "undefined" THEN Absent ELSE a.m[key]])

mergeStartTimeMax(s1, s2) ==
    IF Truthy(s1.startTime) /\ Truthy(s2.startTime)
    THEN Num(IF s1.startTime.v >= s2.startTime.v THEN s1.startTime.v ELSE s2.startTime.v)
    ELSE IF Truthy(s2.startTime) THEN s2.startTime
    ELSE IF Truthy(s1.startTime) THEN s1.startTime
    ELSE Undefined

\* lines 534-537
mergeStartTime(s1, s2) ==
    IF Truthy(s1.startTime) /\ Truthy(s2.startTime)
    THEN Num(IF s1.startTime.v <= s2.startTime.v THEN s1.startTime.v ELSE s2.startTime.v)
    ELSE IF Truthy(s2.startTime) THEN s2.startTime
    ELSE IF Truthy(s1.startTime) THEN s1.startTime
    ELSE Undefined

\* one "if (snapshot1.f || snapshot2.f) snapshot.f = mergeMaps(...)" block
mergeField(s1, s2, f) ==
    IF s1[f].k = "map" \/ s2[f].k = "map" THEN mergeMaps(s1[f], s2[f]) ELSE Undefined

\* the call throws when one of its mergeMaps calls does
mergeSnapshots(s1, s2) ==
    IF \E f \in MapFields : mergeField(s1, s2, f) = TypeError
    THEN TypeError
    ELSE [k |-> "snapshot",
          startTime |-> mergeStartTime(s1, s2),
          fileTimestamps |-> mergeField(s1, s2, "fileTimestamps"),
          fileHashes |-> mergeField(s1, s2, "fileHashes"),
          contextTimestamps |-> mergeField(s1, s2, "contextTimestamps"),
          contextHashes |-> mergeField(s1, s2, "contextHashes"),
          missingTimestamps |-> mergeField(s1, s2, "missingTimestamps"),
          managedItemInfo |-> mergeField(s1, s2, "managedItemInfo")]

----------------------------------------------------------------------------
(* getManagedItem on its own: every path beneath the managed root *)

\* longest remainder of a path beneath the managed root
MaxRemaining == 8

PathChars == {Slash, Backslash, AtSign, "a"}

\* segments are not empty and "@" only begins a segment (a package scope)
\* and is followed by a name
WellFormed(r) ==
    /\ r[1] \notin {Slash, Backslash}
    /\ r[Len(r)] \notin {Slash, Backslash, AtSign}
    /\ \A i \in 1..(Len(r) - 1) :
          /\ ~(r[i] \in {Slash, Backslash} /\ r[i + 1] \in {Slash, Backslash})
          /\ r[i + 1] = AtSign => r[i] \in {Slash, Backslash}
          /\ r[i] = AtSign => r[i + 1] \notin {Slash, Backslash}

RemainingPaths ==
    {r \in UNION {[1..n -> PathChars] : n \in 1..MaxRemaining} : WellFormed(r)}

InitManagedItem ==
    /\ miPath \in {managedPathsWithSlash[1] \o r : r \in RemainingPaths}
    /\ miItem = NotRun

IdleManagedItem ==
    /\ miPath = <<>>
    /\ miItem = NotRun

GetManagedItem ==
    /\ miItem = NotRun
    /\ miItem' = Str(getManagedItem(managedPathsWithSlash[1], miPath))
    /\ UNCHANGED miPath

----------------------------------------------------------------------------
(* mergeSnapshots on its own: pairs of snapshots *)

\* largest startTime of a snapshot handed to mergeSnapshots
MaxStartTime == 2

PathA == <<Slash, "a">>
PathB == <<Slash, "b">>
MergeKeys == {PathA, PathB}

FieldValues(f) ==
    IF f \in {"fileTimestamps", "contextTimestamps", "missingTimestamps"}
    THEN {Error, Null, Entry(1, 1)}
    ELSE IF f = "managedItemInfo"
    THEN {Error, Str("a@1"), Str("a@2")}
    ELSE {Error, Null, Str("h1")}

\* createSnapshot and mergeSnapshots never produce an empty Map
NonEmptyMaps(f) ==
    {JsMap(m) : m \in {mm \in [MergeKeys -> FieldValues(f) \cup {Absent}] :
                          \E key \in MergeKeys : mm[key] # Absent}}

OtherMap(f) ==
    JsMap([key \in MergeKeys |->
             IF key = PathA THEN CHOOSE v \in FieldValues(f) : v # Error ELSE Absent])

\* a snapshot whose field `focus` is fmap and whose other Map fields are
\* all absent (others = FALSE) or all a one-entry Map
MakeSnapshot(focus, fmap, others, st) ==
    LET Field(f) == IF f = focus THEN fmap
                    ELSE IF others THEN OtherMap(f) ELSE Undefined
    IN  [k |-> "snapshot",
         startTime |-> st,
         fileTimestamps |-> Field("fileTimestamps"),
         fileHashes |-> Field("fileHashes"),
         contextTimestamps |-> Field("contextTimestamps"),
         contextHashes |-> Field("contextHashes"),
         missingTimestamps |-> Field("missingTimestamps"),
         managedItemInfo |-> Field("managedItemInfo")]

\* createSnapshot stores a startTime only when it is truthy (line 384)
StartTimes == {Undefined} \cup {Num(t) : t \in 1..MaxStartTime}

InitMerge ==
    /\ \E focus \in MapFields :
         /\ snapshot1 \in {MakeSnapshot(focus, fm, o, st) :
                             fm \in NonEmptyMaps(focus) \cup {Undefined},
                             o \in BOOLEAN, st \in StartTimes}
         /\ snapshot2 \in {MakeSnapshot(focus, fm, o, st) :
                             fm \in NonEmptyMaps(focus) \cup {Undefined},
                             o \in BOOLEAN, st \in StartTimes}
    /\ merged = NotRun

IdleMerge ==
    /\ snapshot1 = Undefined
    /\ snapshot2 = Undefined
    /\ merged = NotRun

MergeSnapshots ==
    /\ merged = NotRun
    /\ merged' = mergeSnapshots(snapshot1, snapshot2)
    /\ UNCHANGED <<snapshot1, snapshot2>>

----------------------------------------------------------------------------
(* The FileSystemInfo instance: paths, caches, queues *)

PathD == <<Slash, "d">>
PathM == <<Slash, "m">>
\* beneath the managed root "/n"
PathNP == <<Slash, "n", Slash, "p">>
PathNPLX == <<Slash, "n", Slash, "p", Slash, "l", Slash, "x">>

InputPaths == {PathA, PathB, PathD, PathM, PathNP, PathNPLX}

\* join(this.fs, path, file)
join(path, file) == path \o <<Slash>> \o file

\* the names of the entries of the directory /d and of its subdirectory /d/s,
\* one of them hidden, and the paths of the visible ones
NameF == <<"f">>
NameS == <<"s">>
NameG == <<"g">>
NameHidden == <<".", "h">>
PathDF == join(PathD, NameF)
PathDS == join(PathD, NameS)
PathDSG == join(PathDS, NameG)
TreePaths == {PathDF, PathDS, PathDSG}

\* the first managed root (with separator) that path starts with, 0 if none
ManagedIndex(path) ==
    IF \E i \in 1..Len(managedPathsWithSlash) : StartsWith(path, managedPathsWithSlash[i])
    THEN CHOOSE i \in 1..Len(managedPathsWithSlash) :
            /\ StartsWith(path, managedPathsWithSlash[i])
            /\ \A j \in 1..(i - 1) : ~StartsWith(path, managedPathsWithSlash[j])
    ELSE 0

IsManaged(path) == ManagedIndex(path) # 0

\* getManagedItem(managedPath, path) of the inner for loops of createSnapshot
ManagedItemOf(path) == getManagedItem(managedPathsWithSlash[ManagedIndex(path)], path)

\* every key a cache, a queue or a snapshot map can hold
Paths ==
    InputPaths \cup {ManagedItemOf(p) : p \in {q \in InputPaths : IsManaged(q)}} \cup TreePaths

\* let FS_ACCURACY = 2000
FsAccuracyInitial == 2000

\* largest mtime a stat reports
MaxMtime == 1

\* safeTime of an entry whose mtime is 0: greater than every finite time
Infinity == MaxMtime + FsAccuracyInitial + 1

\* applyMtime without the comparisons against the present value
applyMtimeUnguarded(accuracy, mtime) ==
    IF mtime % 2 # 0 THEN 1
    ELSE IF mtime % 20 # 0 THEN 10
    ELSE IF mtime % 200 # 0 THEN 100
    ELSE IF mtime % 2000 # 0 THEN 1000
    ELSE accuracy

\* applyMtime: the new value of FS_ACCURACY
applyMtime(accuracy, mtime) ==
    IF accuracy > 1 /\ mtime % 2 # 0 THEN 1
    ELSE IF accuracy > 10 /\ mtime % 20 # 0 THEN 10
    ELSE IF accuracy > 100 /\ mtime % 200 # 0 THEN 100
    ELSE IF accuracy > 1000 /\ mtime % 2000 # 0 THEN 1000
    ELSE accuracy

\* an Error object with a code
Err(code) == [k |-> "Error", code |-> code]
\* the stat object fs.stat yields
Stat(mtime, isDirectory) == [k |-> "stat", mtime |-> mtime, isDirectory |-> isDirectory]
\* the content fs.readFile yields
Content(c) == [k |-> "content", v |-> c]
\* the names fs.readdir yields
Names(files) == [k |-> "names", v |-> files]

\* hash.update(x) ... hash.digest("hex"): a function of what was fed
Digest(x) == Str("md4(" \o x \o ")")

\* the parallelism of the five queues (lines 96, 101, 106, 111, 116)
FileTimestampParallelism == 30
FileHashParallelism == 10
ContextHashParallelism == 2
ManagedItemParallelism == 10

----------------------------------------------------------------------------
(* AsyncQueue: add(key, callback) coalesces the requests for a key, runs the *)
(* processor at most once per key, within the parallelism, and hands every  *)
(* callback the one outcome.                                                *)

NoEntry == [state |-> "none", error |-> Undefined, result |-> Undefined, callbacks |-> <<>>]

NewQueue(parallelism) ==
    [entries |-> [p \in Paths |-> NoEntry], queued |-> <<>>, parallelism |-> parallelism]

QueueNames == {"fileTimestampQueue", "fileHashQueue", "contextHashQueue", "managedItemQueue"}

ActiveTasks(queue) == Cardinality({p \in Paths : queue.entries[p].state = "processing"})

\* the processor is called for key: the read of the file system is under way
StartProcessor(st, q, key) ==
    LET st1 == [st EXCEPT ![q].entries[key].state = "processing"]
    IN  IF q = "fileHashQueue"
        THEN [st1 EXCEPT !.readFileHashRuns[key] = @ + 1]
        ELSE st1

\* start queued keys, first in first out, while a slot is free
RECURSIVE EnsureProcessing(_, _)
EnsureProcessing(st, q) ==
    IF st[q].queued # <<>> /\ ActiveTasks(st[q]) < st[q].parallelism
    THEN LET key == Head(st[q].queued)
             st1 == [st EXCEPT ![q].queued = Tail(@)]
         IN  EnsureProcessing(StartProcessor(st1, q, key), q)
    ELSE st

\* queue.add(key, callback)
QueueAdd(st, q, key, callback) ==
    LET e == st[q].entries[key] IN
    IF e.state = "done"
    THEN [st EXCEPT !.nextTick =
            Append(@, [callback |-> callback, err |-> e.error, result |-> e.result])]
    ELSE IF e.state = "none"
    THEN EnsureProcessing(
            [st EXCEPT ![q].entries[key].state = "queued",
                       ![q].entries[key].callbacks = <<callback>>,
                       ![q].queued = Append(@, key)], q)
    ELSE [st EXCEPT ![q].entries[key].callbacks = Append(@, callback)]

\* a sequence of adds, in order
RECURSIVE QueueAddAll(_, _)
QueueAddAll(st, adds) ==
    IF adds = <<>> THEN st
    ELSE QueueAddAll(QueueAdd(st, Head(adds).q, Head(adds).key, Head(adds).callback),
                     Tail(adds))

\* a set as a sequence, in some fixed order
RECURSIVE SetToSeq(_)
SetToSeq(S) ==
    IF S = {} THEN <<>>
    ELSE LET x == CHOOSE y \in S : TRUE IN <<x>> \o SetToSeq(S \ {x})

----------------------------------------------------------------------------
(* The state as one record, so that a handler and every callback it runs   *)
(* synchronously are one step.                                              *)

Cur ==
    [FS_ACCURACY |-> FS_ACCURACY,
     _fileTimestamps |-> _fileTimestamps,
     _fileHashes |-> _fileHashes,
     _contextHashes |-> _contextHashes,
     _managedItems |-> _managedItems,
     fileTimestampQueue |-> fileTimestampQueue,
     fileHashQueue |-> fileHashQueue,
     contextHashQueue |-> contextHashQueue,
     managedItemQueue |-> managedItemQueue,
     nextTick |-> nextTick,
     fsAnswers |-> fsAnswers,
     cs |-> cs,
     createCallbacks |-> createCallbacks,
     ck |-> ck,
     checkCallbacks |-> checkCallbacks,
     hashCalls |-> hashCalls,
     hashCallbacks |-> hashCallbacks,
     readFileHashRuns |-> readFileHashRuns,
     packFile |-> packFile,
     packPromise |-> packPromise,
     pack |-> pack,
     now |-> now,
     lastCall |-> lastCall,
     opsDone |-> opsDone,
     packBase |-> packBase,
     contextReads |-> contextReads,
     hasher |-> hasher,
     rbd |-> rbd,
     restarts |-> restarts,
     loads |-> loads,
     seeds |-> seeds]

Commit(st) ==
    \E s \in {st} :
        /\ FS_ACCURACY' = s.FS_ACCURACY
        /\ _fileTimestamps' = s._fileTimestamps
        /\ _fileHashes' = s._fileHashes
        /\ _contextHashes' = s._contextHashes
        /\ _managedItems' = s._managedItems
        /\ fileTimestampQueue' = s.fileTimestampQueue
        /\ fileHashQueue' = s.fileHashQueue
        /\ contextHashQueue' = s.contextHashQueue
        /\ managedItemQueue' = s.managedItemQueue
        /\ nextTick' = s.nextTick
        /\ fsAnswers' = s.fsAnswers
        /\ cs' = s.cs
        /\ createCallbacks' = s.createCallbacks
        /\ ck' = s.ck
        /\ checkCallbacks' = s.checkCallbacks
        /\ hashCalls' = s.hashCalls
        /\ hashCallbacks' = s.hashCallbacks
        /\ readFileHashRuns' = s.readFileHashRuns
        /\ packFile' = s.packFile
        /\ packPromise' = s.packPromise
        /\ pack' = s.pack
        /\ now' = s.now
        /\ lastCall' = s.lastCall
        /\ opsDone' = s.opsDone
        /\ packBase' = s.packBase
        /\ contextReads' = s.contextReads
        /\ hasher' = s.hasher
        /\ rbd' = s.rbd
        /\ restarts' = s.restarts
        /\ loads' = s.loads
        /\ seeds' = s.seeds
        /\     UNCHANGED pureVars

EmptyMap == [p \in Paths |-> Absent]
NoMaps == [f \in MapFields |-> EmptyMap]

\* map.size !== 0 ? map : (property not set)
MapOrUndefined(m) == IF MapSize(m) # 0 THEN JsMap(m) ELSE Undefined

----------------------------------------------------------------------------
(* createSnapshot: jobDone and the queue callbacks *)

\* the snapshot object jobDone builds (lines 383-393)
BuildSnapshot(c) ==
    [k |-> "snapshot",
     startTime |-> IF Truthy(c.startTime) THEN c.startTime ELSE Undefined,
     fileTimestamps |-> MapOrUndefined(c.maps["fileTimestamps"]),
     fileHashes |-> MapOrUndefined(c.maps["fileHashes"]),
     contextTimestamps |-> MapOrUndefined(c.maps["contextTimestamps"]),
     contextHashes |-> MapOrUndefined(c.maps["contextHashes"]),
     missingTimestamps |-> MapOrUndefined(c.maps["missingTimestamps"]),
     managedItemInfo |-> MapOrUndefined(c.maps["managedItemInfo"])]

\* jobDone calling back while one job is still counted
CsJobDoneEarly(st) ==
    LET j == st.cs.jobs - 1 IN
    IF j <= 1
    THEN [st EXCEPT !.cs.jobs = j,
                    !.createCallbacks =
                        Append(@, [err |-> Null, snapshot |-> BuildSnapshot(st.cs)])]
    ELSE [st EXCEPT !.cs.jobs = j]

\* jobDone of createSnapshot (lines 381-396)
CsJobDone(st) ==
    LET j == st.cs.jobs - 1 IN
    IF j = 0
    THEN [st EXCEPT !.cs.jobs = j,
                    !.createCallbacks =
                        Append(@, [err |-> Null, snapshot |-> BuildSnapshot(st.cs)])]
    ELSE [st EXCEPT !.cs.jobs = j]

\* the callbacks createSnapshot hands to the queues (lines 411-418, 434-441,
\* 460-467, 496-503, 513-520)
CsCallback(st, callback, err, result) ==
    CsJobDone([st EXCEPT !.cs.maps[callback.map][callback.path] =
                            IF Truthy(err) THEN Error ELSE result])

----------------------------------------------------------------------------
(* checkSnapshotValid: jobDone, invalid, the predicates and the callbacks *)

\* jobDone of checkSnapshotValid (lines 592-596): --NaN is NaN
CkJobDone(st) ==
    IF st.ck.jobs.k = "NaN" THEN st
    ELSE LET j == st.ck.jobs.v - 1 IN
         IF j = 0
         THEN [st EXCEPT !.ck.jobs = Num(j),
                         !.checkCallbacks = Append(@, [err |-> Null, result |-> TRUE])]
         ELSE [st EXCEPT !.ck.jobs = Num(j)]

\* invalid without its guard
CkInvalidUnguarded(st) ==
    [st EXCEPT !.ck.jobs = NaN,
               !.checkCallbacks = Append(@, [err |-> Null, result |-> FALSE])]

\* invalid (lines 597-602): NaN > 0 is false
CkInvalid(st) ==
    IF st.ck.jobs.k = "number" /\ st.ck.jobs.v > 0
    THEN [st EXCEPT !.ck.jobs = NaN,
                    !.checkCallbacks = Append(@, [err |-> Null, result |-> FALSE])]
    ELSE st

\* checkHash taking the null of a path that does not exist for a failure
checkHashOfExisting(current, snap) ==
    IF snap = Error \/ snap = Null THEN FALSE
    ELSE current = snap

checkHash(current, snap) ==
    IF snap = Error THEN FALSE
    ELSE current = snap

checkExistance(current, snap) ==
    IF snap = Error THEN FALSE
    ELSE Truthy(current) = Truthy(snap)

\* current.safeTime > startTime, false when startTime is undefined
SafeTimeAfter(current, startTime) ==
    /\ startTime.k = "number"
    /\ current.safeTime > startTime.v

\* checkFile without the comparison of safeTime and startTime
checkFileNoSafeTime(current, snap, startTime) ==
    IF snap = Error THEN FALSE
    ELSE IF Truthy(current) # Truthy(snap) THEN FALSE
    ELSE IF Truthy(current)
            /\ snap.timestamp # TimestampUndefined
            /\ current.timestamp # snap.timestamp
    THEN FALSE
    ELSE TRUE

\* checkFile (lines 629-657)
checkFile(current, snap, startTime) ==
    IF snap = Error THEN FALSE
    ELSE IF Truthy(current) /\ SafeTimeAfter(current, startTime) THEN FALSE
    ELSE IF Truthy(current) # Truthy(snap) THEN FALSE
    ELSE IF Truthy(current)
            /\ snap.timestamp # TimestampUndefined
            /\ current.timestamp # snap.timestamp
    THEN FALSE
    ELSE TRUE

\* the predicate each map of a snapshot is checked with
CheckOf(map) ==
    CASE map = "fileTimestamps" -> "checkFile"
      [] map = "missingTimestamps" -> "checkExistance"
      [] OTHER -> "checkHash"

RunCheck(check, current, snap, startTime) ==
    CASE check = "checkFile" -> checkFile(current, snap, startTime)
      [] check = "checkExistance" -> checkExistance(current, snap)
      [] OTHER -> checkHash(current, snap)

\* the callbacks checkSnapshotValid hands to the queues (lines 667-674,
\* 687-694, 711-718, 731-738)
CkCallback(st, callback, err, result) ==
    IF Truthy(err) THEN CkInvalid(st)
    ELSE IF ~RunCheck(CheckOf(callback.map), result, callback.snap, st.ck.snapshot.startTime)
    THEN CkInvalid(st)
    ELSE CkJobDone(st)

----------------------------------------------------------------------------
(* Running callbacks, and the completion of a queue's job *)

\* a name as one string
RECURSIVE NameString(_)
NameString(name) ==
    IF name = <<>> THEN "" ELSE Head(name) \o NameString(Tail(name))

\* .filter(file => !/^\./.test(file))
RECURSIVE FilterHidden(_)
FilterHidden(files) ==
    IF files = <<>> THEN <<>>
    ELSE IF Head(files) # <<>> /\ Head(files)[1] = "."
    THEN FilterHidden(Tail(files))
    ELSE <<Head(files)>> \o FilterHidden(Tail(files))

\* for (const file of files) hash.update(file)
RECURSIVE UpdateAll(_)
UpdateAll(strings) ==
    IF strings = <<>> THEN "" ELSE Head(strings) \o "," \o UpdateAll(Tail(strings))

\* file.normalize("NFC") on a name given as its sequence of characters, a
\* character outside ASCII by its code point: a letter followed by its
\* combining mark becomes the precomposed letter
RECURSIVE normalize(_)
normalize(name) ==
    IF Len(name) < 2 THEN name
    ELSE IF name[1] = "e" /\ name[2] = "U+0301"
    THEN <<"U+00E9">> \o normalize(Tail(Tail(name)))
    ELSE <<name[1]>> \o normalize(Tail(name))

\* the UTF-16 code unit of a character
CodeUnit(c) ==
    CASE c = "." -> 46
      [] c = "e" -> 101
      [] c = "f" -> 102
      [] c = "g" -> 103
      [] c = "h" -> 104
      [] c = "s" -> 115
      [] c = "U+00E9" -> 233
      [] c = "U+0301" -> 769

\* a < b as JavaScript compares strings: by code units, a prefix first
RECURSIVE Before(_, _)
Before(a, b) ==
    IF a = <<>> THEN b # <<>>
    ELSE IF b = <<>> THEN FALSE
    ELSE IF Head(a) = Head(b) THEN Before(Tail(a), Tail(b))
    ELSE CodeUnit(Head(a)) < CodeUnit(Head(b))

RECURSIVE Insert(_, _)
Insert(sorted, file) ==
    IF sorted = <<>> THEN <<file>>
    ELSE IF Before(file, Head(sorted)) THEN <<file>> \o sorted
    ELSE <<Head(sorted)>> \o Insert(Tail(sorted), file)

\* a sort that leaves the files in the order readdir gave them
sortKeepsOrder(files) == files

\* files.sort()
RECURSIVE sort(_)
sort(files) ==
    IF files = <<>> THEN <<>> ELSE Insert(sort(Tail(files)), Head(files))

\* contextHashQueue.increaseParallelism() and decreaseParallelism()
increaseParallelism(st, q) == EnsureProcessing([st EXCEPT ![q].parallelism = @ + 1], q)
decreaseParallelism(st, q) == [st EXCEPT ![q].parallelism = @ - 1]

\* no asyncLib.map call
NoRead == [state |-> "none", files |-> <<>>, stats |-> <<>>, results |-> <<>>, failed |-> FALSE]

RECURSIVE QueueFinish(_, _, _, _, _)

\* what a hash makes of the argument of update: a string is fed as it is, and
\* a hash that does not throw for another value feeds its name
Fed(value) ==
    CASE value.k = "string" -> value.v
      [] value.k = "null" -> "null"
      [] OTHER -> "undefined"

\* what the hash of createHash may do with an update that is not a string
Hashers == {"throws", "coerces"}

\* the final callback of asyncLib.map in _readContextHash (lines 832-844): err
\* is not looked at; the names and then the hashes are fed to the hash.  A
\* value that is not a string (a slot never filled, or the null of a file that
\* does not exist) either makes hash.update throw, in which case nothing is
\* stored and the callback of the read is never called, or is hashed as well
MapCallback(st, dir, err) ==
    LET read == st.contextReads[dir]
        fileHashes == read.results
    IN  IF /\ \E i \in 1..Len(fileHashes) : fileHashes[i].k # "string"
           /\ st.hasher = "throws"
        THEN [st EXCEPT !.contextReads[dir].state = "thrown"]
        ELSE LET names == [i \in 1..Len(read.files) |-> NameString(read.files[i])]
                 hashes == [i \in 1..Len(fileHashes) |-> Fed(fileHashes[i])]
                 digest == Digest(UpdateAll(names \o hashes))
             IN  QueueFinish([st EXCEPT !._contextHashes[dir] = digest,
                                        !.contextReads[dir].state = "done"],
                             "contextHashQueue", dir, Null, digest)

\* asyncLib.map: the callback handed to the iterator for files[index] is
\* called with (err, result).  The first error calls the final callback, once,
\* with the results so far; otherwise the final callback is called when every
\* slot is filled
MapIteratorDone(st, dir, index, err, result) ==
    LET read == st.contextReads[dir] IN
    IF read.failed
    THEN IF Truthy(err) THEN st
         ELSE [st EXCEPT !.contextReads[dir].results[index] = result]
    ELSE IF Truthy(err)
    THEN MapCallback([st EXCEPT !.contextReads[dir].failed = TRUE], dir, err)
    ELSE LET filled == [st EXCEPT !.contextReads[dir].results[index] = result] IN
         IF \A i \in 1..Len(read.results) : filled.contextReads[dir].results[i] # NotRun
         THEN MapCallback(filled, dir, Null)
         ELSE filled

\* the callbacks _readContextHash hands to getFileHash (the callback of the
\* iterator itself) and to getContextHash (lines 823-826)
ChildHashed(st, callback, err, result) ==
    IF callback.kind = "directory"
    THEN MapIteratorDone(decreaseParallelism(st, "contextHashQueue"),
                         callback.dir, callback.index, err,
                         IF Truthy(result) THEN result ELSE Str(""))
    ELSE MapIteratorDone(st, callback.dir, callback.index, err, result)

\* the callback of a getFileHash call: the caller sees (err, value)
HashCallback(st, callback, err, result) ==
    [st EXCEPT !.hashCallbacks[callback.id] = Append(@, [err |-> err, result |-> result])]

\* the callback of a getFileTimestamp call: the caller sees (err, value)
TimestampCallback(st, callback, err, result) ==
    [st EXCEPT !.seeds.callbacks =
        Append(@, [path |-> callback.path, seeded |-> callback.seeded,
                   err |-> err, result |-> result])]

\* callback(err, result)
Deliver(st, callback, err, result) ==
    CASE callback.op = "createSnapshot" -> CsCallback(st, callback, err, result)
      [] callback.op = "checkSnapshotValid" -> CkCallback(st, callback, err, result)
      [] callback.op = "getFileHash" -> HashCallback(st, callback, err, result)
      [] callback.op = "contextChild" -> ChildHashed(st, callback, err, result)
      [] callback.op = "getFileTimestamp" -> TimestampCallback(st, callback, err, result)

\* the callbacks attached to a key, in the order they were added
RECURSIVE DeliverAll(_, _, _, _)
DeliverAll(st, callbacks, err, result) ==
    IF callbacks = <<>> THEN st
    ELSE DeliverAll(Deliver(st, Head(callbacks), err, result), Tail(callbacks), err, result)

\* the processor's callback: the entry is done, its callbacks run, and a freed
\* slot goes to the next queued key
QueueFinish(st, q, key, err, result) ==
    LET callbacks == st[q].entries[key].callbacks
        done == [st EXCEPT ![q].entries[key] =
                    [state |-> "done", error |-> err, result |-> result, callbacks |-> <<>>]]
    IN  EnsureProcessing(DeliverAll(done, callbacks, err, result), q)

----------------------------------------------------------------------------
(* The processors: what the callback of each file-system call does *)

\* _readFileTimestamp with the safeTime taken from FS_ACCURACY as it was before
\* applyMtime
readFileTimestampEarlierAccuracy(st, path, outcome) ==
    IF outcome.k = "Error"
    THEN IF outcome.code = "ENOENT"
         THEN QueueFinish([st EXCEPT !._fileTimestamps[path] = Null],
                          "fileTimestampQueue", path, Null, Null)
         ELSE QueueFinish(st, "fileTimestampQueue", path, outcome, Undefined)
    ELSE LET mtime == outcome.mtime
             accuracy == IF mtime # 0 THEN applyMtime(st.FS_ACCURACY, mtime)
                         ELSE st.FS_ACCURACY
             ts == Entry(IF mtime # 0 THEN mtime + st.FS_ACCURACY ELSE Infinity,
                         IF outcome.isDirectory THEN TimestampUndefined ELSE mtime)
         IN  QueueFinish([st EXCEPT !.FS_ACCURACY = accuracy,
                                    !._fileTimestamps[path] = ts],
                         "fileTimestampQueue", path, Null, ts)

\* _readFileTimestamp: the callback of fs.stat
readFileTimestamp(st, path, outcome) ==
    IF outcome.k = "Error"
    THEN IF outcome.code = "ENOENT"
         THEN QueueFinish([st EXCEPT !._fileTimestamps[path] = Null],
                          "fileTimestampQueue", path, Null, Null)
         ELSE QueueFinish(st, "fileTimestampQueue", path, outcome, Undefined)
    ELSE LET mtime == outcome.mtime
             accuracy == IF mtime # 0 THEN applyMtime(st.FS_ACCURACY, mtime)
                         ELSE st.FS_ACCURACY
             ts == Entry(IF mtime # 0 THEN mtime + accuracy ELSE Infinity,
                         IF outcome.isDirectory THEN TimestampUndefined ELSE mtime)
         IN  QueueFinish([st EXCEPT !.FS_ACCURACY = accuracy,
                                    !._fileTimestamps[path] = ts],
                         "fileTimestampQueue", path, Null, ts)

\* _readFileHash: the callback of fs.readFile
readFileHash(st, path, outcome) ==
    IF outcome.k = "Error"
    THEN IF outcome.code = "ENOENT"
         THEN QueueFinish([st EXCEPT !._fileHashes[path] = Null],
                          "fileHashQueue", path, Null, Null)
         ELSE QueueFinish(st, "fileHashQueue", path, outcome, Undefined)
    ELSE LET digest == Digest(outcome.v)
         IN  QueueFinish([st EXCEPT !._fileHashes[path] = digest],
                         "fileHashQueue", path, Null, digest)

\* _readContextHash: the callback of fs.readdir.  asyncLib.map calls the
\* iterator for every file, which calls fs.stat for it; with no file it calls
\* its final callback at once
readContextHash(st, path, outcome) ==
    IF outcome.k = "Error"
    THEN IF outcome.code = "ENOENT"
         THEN QueueFinish([st EXCEPT !._contextHashes[path] = Null],
                          "contextHashQueue", path, Null, Null)
         ELSE QueueFinish(st, "contextHashQueue", path, outcome, Undefined)
    ELSE LET files == sort(FilterHidden([i \in 1..Len(outcome.v) |-> normalize(outcome.v[i])]))
             mapping == [st EXCEPT !.contextReads[path] =
                            [state |-> "mapping",
                             files |-> files,
                             stats |-> [i \in 1..Len(files) |-> NotRun],
                             results |-> [i \in 1..Len(files) |-> NotRun],
                             failed |-> FALSE]]
         IN  IF files = <<>> THEN MapCallback(mapping, path, Null) ELSE mapping

\* `${data.name || ""}@${data.version || ""}`
ManagedInfo(data) == Str(data.name \o "@" \o data.version)

\* _getManagedItemInfo: the callback of fs.readFile of package.json; every
\* error, and a content that is no JSON, is handed on as the error
getManagedItemInfo(st, path, outcome) ==
    IF outcome.k = "Error"
    THEN QueueFinish(st, "managedItemQueue", path, outcome, Undefined)
    ELSE IF outcome.v.k = "invalid"
    THEN QueueFinish(st, "managedItemQueue", path, Err("SyntaxError"), Undefined)
    ELSE QueueFinish(st, "managedItemQueue", path, Null, ManagedInfo(outcome.v))

----------------------------------------------------------------------------
(* What the file system can answer *)

Mtimes == 0..MaxMtime

\* a missing path, a failing stat, a file of any mtime, a directory
StatOutcomes ==
    {Err("ENOENT"), Err("EBUSY")}
        \cup {Stat(mtime, FALSE) : mtime \in Mtimes}
        \cup {Stat(MaxMtime, TRUE)}

ReadFileOutcomes == {Err("ENOENT"), Err("EBUSY"), Content("c1")}

\* directories with no entry, and with one hidden entry
ReaddirOutcomes ==
    {Err("ENOENT"), Err("EBUSY"), Names(<<>>), Names(<< <<".", "h">> >>)}

PackageJson(name, version) == [k |-> "json", name |-> name, version |-> version]

PackageJsonOutcomes ==
    {Err("ENOENT"), Content([k |-> "invalid"]), Content(PackageJson("p", "1"))}

Processing(queue, path) == queue.entries[path].state = "processing"

\* the file system answers the call the processor of q made for path
Answered(st, q, path, outcome) == [st EXCEPT !.fsAnswers[q][path] = outcome]

\* fs.stat calls back
FileTimestampRead ==
    \E path \in Paths, outcome \in StatOutcomes :
        /\ Processing(fileTimestampQueue, path)
        /\ Commit(readFileTimestamp(Answered(Cur, "fileTimestampQueue", path, outcome), path, outcome))

\* fs.readFile calls back
FileHashRead ==
    \E path \in Paths, outcome \in ReadFileOutcomes :
        /\ Processing(fileHashQueue, path)
        /\ Commit(readFileHash(Answered(Cur, "fileHashQueue", path, outcome), path, outcome))

\* fs.readdir calls back
ContextHashRead ==
    \E path \in Paths, outcome \in ReaddirOutcomes :
        /\ Processing(contextHashQueue, path)
        /\ Commit(readContextHash(Answered(Cur, "contextHashQueue", path, outcome), path, outcome))

\* fs.readFile of an item's package.json calls back
ManagedItemRead ==
    \E path \in Paths, outcome \in PackageJsonOutcomes :
        /\ Processing(managedItemQueue, path)
        /\ Commit(getManagedItemInfo(Answered(Cur, "managedItemQueue", path, outcome), path, outcome))

\* a callback deferred to the next tick runs
NextTickRun ==
    /\ nextTick # <<>>
    /\ LET t == Head(nextTick)
       IN  Commit(Deliver([Cur EXCEPT !.nextTick = Tail(@)], t.callback, t.err, t.result))

QueueSteps ==
    \/ FileTimestampRead
    \/ FileHashRead
    \/ ContextHashRead
    \/ ManagedItemRead
    \/ NextTickRun

----------------------------------------------------------------------------
(* The operations of FileSystemInfo *)

\* addFileTimestamps(map)
addFileTimestamps(st, map) ==
    [st EXCEPT !._fileTimestamps =
        [p \in Paths |-> IF map[p] # Absent THEN map[p] ELSE @[p]]]

\* getFileTimestamp(path, callback) (lines 150-154)
getFileTimestamp(st, path, callback) ==
    LET cache == st._fileTimestamps[path] IN
    IF cache # Undefined THEN Deliver(st, callback, Null, cache)
    ELSE QueueAdd(st, "fileTimestampQueue", path, callback)

\* getFileHash starting a read of its own for every call
getFileHashUncoalesced(st, path, callback) ==
    LET cache == st._fileHashes[path] IN
    IF cache # Undefined THEN Deliver(st, callback, Null, cache)
    ELSE LET started == StartProcessor(st, "fileHashQueue", path)
         IN  [started EXCEPT !.fileHashQueue.entries[path].callbacks = Append(@, callback)]

\* getFileHash(path, callback)
getFileHash(st, path, callback) ==
    LET cache == st._fileHashes[path] IN
    IF cache # Undefined THEN Deliver(st, callback, Null, cache)
    ELSE QueueAdd(st, "fileHashQueue", path, callback)

\* getContextHash(path, callback)
getContextHash(st, path, callback) ==
    LET cache == st._contextHashes[path] IN
    IF cache # Undefined THEN Deliver(st, callback, Null, cache)
    ELSE QueueAdd(st, "contextHashQueue", path, callback)

ChildCallback(dir, index, kind) ==
    [op |-> "contextChild", dir |-> dir, index |-> index, kind |-> kind]

\* the callback of fs.stat(child, ...) in _readContextHash (lines 815-830)
childStat(st, dir, index, outcome) ==
    LET child == join(dir, st.contextReads[dir].files[index])
        answered == [st EXCEPT !.contextReads[dir].stats[index] = outcome,
                               !.fsAnswers["stat"][child] = outcome]
    IN  IF outcome.k = "Error" THEN MapIteratorDone(answered, dir, index, outcome, Undefined)
        ELSE IF outcome.isFile
        THEN getFileHash(answered, child, ChildCallback(dir, index, "file"))
        ELSE IF outcome.isDirectory
        THEN getContextHash(increaseParallelism(answered, "contextHashQueue"), child,
                            ChildCallback(dir, index, "directory"))
        ELSE MapIteratorDone(answered, dir, index, Null, Str(""))

\* the callbacks of a sequence of adds
Callbacks(adds) == {adds[i].callback : i \in 1..Len(adds)}

\* the cache and the queue behind each map of a snapshot
CacheOf(st, map) ==
    CASE map \in {"fileTimestamps", "missingTimestamps"} -> st._fileTimestamps
      [] map = "fileHashes" -> st._fileHashes
      [] map = "contextHashes" -> st._contextHashes
      [] map = "managedItemInfo" -> st._managedItems

QueueOf(map) ==
    CASE map \in {"fileTimestamps", "missingTimestamps"} -> "fileTimestampQueue"
      [] map = "fileHashes" -> "fileHashQueue"
      [] map = "contextHashes" -> "contextHashQueue"
      [] map = "managedItemInfo" -> "managedItemQueue"

\* one loop of createSnapshot over the paths that go to map: the entries set
\* from the cache ...
CsCached(st, map, paths) ==
    [p \in Paths |-> IF p \in paths /\ CacheOf(st, map)[p] # Undefined
                     THEN CacheOf(st, map)[p] ELSE Absent]

\* ... and the reads added to the queue
CsAdds(st, map, paths) ==
    SetToSeq({[q |-> QueueOf(map), key |-> p,
               callback |-> [op |-> "createSnapshot", map |-> map, path |-> p]] :
              p \in {x \in paths : CacheOf(st, map)[x] = Undefined}})

\* createSnapshot(startTime, files, directories, missing, options, callback)
createSnapshot(st, startTime, files, directories, missing, hash) ==
    LET Plain(paths) == {p \in paths : ~IsManaged(p)}
        managedItems ==
            {ManagedItemOf(p) : p \in {x \in files \cup directories \cup missing : IsManaged(x)}}
        maps ==
            [f \in MapFields |->
                CASE f = "fileTimestamps" ->
                        IF hash THEN EmptyMap ELSE CsCached(st, f, Plain(files))
                  [] f = "fileHashes" ->
                        IF hash THEN CsCached(st, f, Plain(files)) ELSE EmptyMap
                  [] f = "contextTimestamps" ->
                        IF hash THEN EmptyMap
                        ELSE [p \in Paths |-> IF p \in Plain(directories) THEN Error ELSE Absent]
                  [] f = "contextHashes" ->
                        IF hash THEN CsCached(st, f, Plain(directories)) ELSE EmptyMap
                  [] f = "missingTimestamps" -> CsCached(st, f, Plain(missing))
                  [] f = "managedItemInfo" -> CsCached(st, f, managedItems)]
        adds ==
            CsAdds(st, IF hash THEN "fileHashes" ELSE "fileTimestamps", Plain(files))
            \o (IF hash THEN CsAdds(st, "contextHashes", Plain(directories)) ELSE <<>>)
            \o CsAdds(st, "missingTimestamps", Plain(missing))
            \o CsAdds(st, "managedItemInfo", managedItems)
        called ==
            [st EXCEPT !.cs = [status |-> "called",
                               jobs |-> 1 + Len(adds),
                               startTime |-> startTime,
                               hash |-> hash,
                               files |-> files,
                               directories |-> directories,
                               missing |-> missing,
                               managedItems |-> managedItems,
                               dispatched |-> Callbacks(adds),
                               maps |-> maps]]
    IN  CsJobDone(QueueAddAll(called, adds))

\* the maps checkSnapshotValid loops over, in its order
CheckedMaps == <<"fileTimestamps", "fileHashes", "contextHashes", "missingTimestamps">>

SnapshotKeys(snapshot, map) ==
    IF snapshot[map].k = "map" THEN MapKeys(snapshot[map].m) ELSE {}

\* a cached entry fails its predicate
CkCachedInvalid(st, snapshot, map) ==
    \E p \in SnapshotKeys(snapshot, map) :
        /\ CacheOf(st, map)[p] # Undefined
        /\ ~RunCheck(CheckOf(map), CacheOf(st, map)[p], snapshot[map].m[p], snapshot.startTime)

CkAdds(st, snapshot, map) ==
    SetToSeq({[q |-> QueueOf(map), key |-> p,
               callback |-> [op |-> "checkSnapshotValid", map |-> map, path |-> p,
                             snap |-> snapshot[map].m[p]]] :
              p \in {x \in SnapshotKeys(snapshot, map) : CacheOf(st, map)[x] = Undefined}})

\* checkSnapshotValid(snapshot, callback)
checkSnapshotValid(st, snapshot) ==
    LET adds == CkAdds(st, snapshot, CheckedMaps[1]) \o CkAdds(st, snapshot, CheckedMaps[2])
                \o CkAdds(st, snapshot, CheckedMaps[3]) \o CkAdds(st, snapshot, CheckedMaps[4])
        invalidNow ==
            \/ \E i \in 1..Len(CheckedMaps) : CkCachedInvalid(st, snapshot, CheckedMaps[i])
            \/ /\ snapshot.contextTimestamps.k = "map"
               /\ MapSize(snapshot.contextTimestamps.m) > 0
        called ==
            [st EXCEPT !.ck = [status |-> "called",
                               jobs |-> Num(1 + Len(adds)),
                               dispatched |-> Callbacks(adds),
                               snapshot |-> snapshot]]
        added == QueueAddAll(called, adds)
    IN  CkJobDone(IF invalidNow THEN CkInvalid(added) ELSE added)

----------------------------------------------------------------------------
(* Pack: the values it stores *)

\* const MAX_INLINE_SIZE = 20000
MAX_INLINE_SIZE == 20000

\* the identifiers and etags callers use
Ids == {"i1", "i2"}
Etag1 == Str("e1")
Etag2 == Str("e2")
Etags == {Etag1, Etag2}

\* the data of an entry: what the serializer measures as its size, and whether
\* writing it succeeds
Data(name, size, serializable) ==
    [k |-> "data", name |-> name, size |-> size, serializable |-> serializable]

\* data at the threshold, data above it, data whose write throws
DataSmall == Data("small", MAX_INLINE_SIZE, TRUE)
DataBig == Data("big", MAX_INLINE_SIZE + 1, TRUE)
DataNotSerializable == Data("function", 1, FALSE)
Datas == {DataSmall, DataBig, DataNotSerializable}

\* new PackEntry(data, identifier), and a PackEntry as it is read back
PackEntry(data, size) == [k |-> "PackEntry", data |-> data, size |-> size]

\* a lazy loader: () => Promise<PackEntry>
Lazy(entry) == [k |-> "function", entry |-> entry]

NoIds == [id \in Ids |-> Absent]

\* new Pack(version, logger)
NewPack(version) ==
    [k |-> "Pack",
     version |-> version,
     etags |-> NoIds,
     content |-> NoIds,
     buildSnapshot |-> Undefined,
     lastAccess |-> NoIds,
     lastSizes |-> NoIds,
     unserializable |-> {},
     used |-> {},
     invalid |-> FALSE]

----------------------------------------------------------------------------
(* Pack: its methods.  Each yields the pack after the call, and the value   *)
(* returned where there is one.                                             *)

\* _unpack that records the size and moves the data but leaves invalid alone
_unpackKeepsValid(p, identifier, entry, currentlyInline) ==
    IF entry.data = Undefined
    THEN [p EXCEPT !.unserializable = @ \cup {identifier},
                   !.lastSizes[identifier] = Absent]
    ELSE LET sized == [p EXCEPT !.lastSizes[identifier] = entry.size] IN
         IF ~currentlyInline /\ entry.size.v <= MAX_INLINE_SIZE
         THEN [sized EXCEPT !.content[identifier] = entry.data]
         ELSE sized

\* _unpack(identifier, entry, currentlyInline): the pack after it
_unpack(p, identifier, entry, currentlyInline) ==
    IF entry.data = Undefined
    THEN [p EXCEPT !.unserializable = @ \cup {identifier},
                   !.lastSizes[identifier] = Absent]
    ELSE LET sized == [p EXCEPT !.lastSizes[identifier] = entry.size] IN
         IF currentlyInline
         THEN IF entry.size.v > MAX_INLINE_SIZE
              THEN [sized EXCEPT !.invalid = TRUE]
              ELSE sized
         ELSE IF entry.size.v <= MAX_INLINE_SIZE
              THEN [sized EXCEPT !.content[identifier] = entry.data, !.invalid = TRUE]
              ELSE sized

\* _unpack(identifier, entry, currentlyInline): the value returned
UnpackedData(entry) == entry.data

\* get with the used set left alone on a hit
getUnmarked(p, identifier, etag) ==
    LET etagInCache == p.etags[identifier]
        content == p.content[identifier]
    IN  IF etagInCache = Absent THEN [pack |-> p, result |-> Undefined]
        ELSE IF etagInCache # etag THEN [pack |-> p, result |-> Undefined]
        ELSE IF content.k = "function"
             THEN [pack |-> _unpack(p, identifier, content.entry, FALSE),
                   result |-> UnpackedData(content.entry)]
             ELSE [pack |-> p, result |-> content]

\* get(identifier, etag); the promise of a lazy entry is followed to its value
get(p, identifier, etag) ==
    LET etagInCache == p.etags[identifier]
        marked == [p EXCEPT !.used = @ \cup {identifier}]
        content == p.content[identifier]
    IN  IF etagInCache = Absent THEN [pack |-> p, result |-> Undefined]
        ELSE IF etagInCache # etag THEN [pack |-> p, result |-> Undefined]
        ELSE IF content.k = "function"
             THEN [pack |-> _unpack(marked, identifier, content.entry, FALSE),
                   result |-> UnpackedData(content.entry)]
             ELSE [pack |-> marked, result |-> content]

\* set that does not look at unserializable
setAlways(p, identifier, etag, data) ==
    [p EXCEPT !.used = @ \cup {identifier},
              !.invalid = TRUE,
              !.etags[identifier] = etag,
              !.content[identifier] = data]

\* set(identifier, etag, data)
set(p, identifier, etag, data) ==
    IF identifier \in p.unserializable THEN p
    ELSE [p EXCEPT !.used = @ \cup {identifier},
                   !.invalid = TRUE,
                   !.etags[identifier] = etag,
                   !.content[identifier] = data]

\* _updateLastAccess(), Date.now() reading time
_updateLastAccess(p, time) ==
    [p EXCEPT !.lastAccess = [id \in Ids |-> IF id \in p.used THEN Num(time) ELSE @[id]],
              !.used = {}]

\* the for loop of collectGarbage
DropOlderThan(p, maxAge, time) ==
    LET Old(id) == p.lastAccess[id] # Absent /\ time - p.lastAccess[id].v > maxAge
        Keep(map) == [id \in Ids |-> IF Old(id) THEN Absent ELSE map[id]]
    IN  [p EXCEPT !.lastAccess = Keep(@), !.etags = Keep(@), !.content = Keep(@)]

\* collectGarbage(maxAge): Date.now() reads time1 in _updateLastAccess and
\* time2 in collectGarbage itself
collectGarbage(p, maxAge, time1, time2) ==
    DropOlderThan(_updateLastAccess(p, time1), maxAge, time2)

\* a PackEntry written by PackEntry.serialize and read back by
\* PackEntry.deserialize: data that cannot be written, and the undefined left
\* in content for an unserializable identifier, read back as an entry without data
WrittenEntry(data) ==
    IF data.k = "data" /\ data.serializable
    THEN PackEntry(data, Num(data.size))
    ELSE PackEntry(Undefined, Undefined)

\* a loop of serialize that writes every entry that is not a loader inline
SerializedEntryInline(p, identifier) ==
    LET data == p.content[identifier] IN
    IF data = Absent THEN Absent
    ELSE IF data.k = "function" THEN [tier |-> "lazy", entry |-> data.entry]
    ELSE [tier |-> "inline", entry |-> WrittenEntry(data)]

\* the body of the for loop of serialize: what is written for one identifier
SerializedEntry(p, identifier) ==
    LET data == p.content[identifier]
        lastSize == p.lastSizes[identifier]
    IN  IF data = Absent THEN Absent
        ELSE IF data.k = "function" THEN [tier |-> "lazy", entry |-> data.entry]
        ELSE IF lastSize # Absent /\ lastSize.v > MAX_INLINE_SIZE
             THEN [tier |-> "lazy", entry |-> WrittenEntry(data)]
             ELSE [tier |-> "inline", entry |-> WrittenEntry(data)]

\* serialize({ write }): the pack after it, and what was written
serialize(p, time) ==
    LET rolled == _updateLastAccess(p, time) IN
    [pack |-> rolled,
     image |-> [k |-> "Pack",
                version |-> rolled.version,
                etags |-> rolled.etags,
                unserializable |-> rolled.unserializable,
                lastAccess |-> rolled.lastAccess,
                buildSnapshot |-> rolled.buildSnapshot,
                entries |-> [id \in Ids |-> SerializedEntry(rolled, id)]]]

\* the while loop of deserialize
RECURSIVE ReadEntries(_, _, _)
ReadEntries(p, image, ids) ==
    IF ids = <<>> THEN p
    ELSE LET identifier == Head(ids)
             written == image.entries[identifier]
         IN  IF written = Absent THEN ReadEntries(p, image, Tail(ids))
             ELSE IF written.tier = "lazy"
             THEN ReadEntries([p EXCEPT !.content[identifier] = Lazy(written.entry)],
                              image, Tail(ids))
             ELSE ReadEntries(
                     [_unpack(p, identifier, written.entry, TRUE)
                         EXCEPT !.content[identifier] = UnpackedData(written.entry)],
                     image, Tail(ids))

\* deserialize({ read, logger }) on the Pack the serializer constructs
deserialize(image) ==
    ReadEntries([NewPack(Undefined) EXCEPT !.version = image.version,
                                           !.etags = image.etags,
                                           !.unserializable = image.unserializable,
                                           !.lastAccess = image.lastAccess,
                                           !.buildSnapshot = image.buildSnapshot],
                image, SetToSeq(Ids))

----------------------------------------------------------------------------
(* PackFileCacheStrategy *)

\* the version the strategy is configured with, and the one an older build used
Version == "v2"
OlderVersion == "v1"

\* 1000 * 60 * 60 * 24 * 2
TwoDays == 1000 * 60 * 60 * 24 * 2

\* what fileSerializer.deserialize finds at cacheLocation.pack
FileMissing == [k |-> "missing"]
FileUnreadable == [k |-> "unreadable"]
FileEmpty == [k |-> "empty"]
FileOther == [k |-> "other"]

\* no strategy has been constructed
NoPromise == [status |-> "none", cacheEntry |-> Undefined]
PromisePending == [status |-> "deserializing", cacheEntry |-> Undefined]
PromiseChecking(cacheEntry) == [status |-> "checking", cacheEntry |-> cacheEntry]
PromiseResolved == [status |-> "resolved", cacheEntry |-> Undefined]

NoCall == [op |-> "none"]

\* the four parts of a pack that a pack file holds
OnDisk(image) ==
    [etags |-> image.etags, entries |-> image.entries,
     lastAccess |-> image.lastAccess, buildSnapshot |-> image.buildSnapshot]

\* no pack file, or a fresh pack that has not been written
NothingOnDisk ==
    [etags |-> NoIds, entries |-> NoIds, lastAccess |-> NoIds, buildSnapshot |-> Undefined]

\* resolve(pack) of the pack promise
ResolvePack(st, p, reason) ==
    [st EXCEPT !.pack = p,
               !.packPromise = PromiseResolved,
               !.packBase = IF reason = "reused" THEN OnDisk(st.packFile) ELSE NothingOnDisk,
               !.lastCall = [op |-> "constructor", reason |-> reason]]

\* the callback the constructor hands to checkSnapshotValid (lines 1110-1120),
\* run when checkSnapshotValid has called back
BuildDependenciesChecked(st) ==
    IF st.packPromise.status = "checking" /\ st.checkCallbacks # <<>>
    THEN LET answer == st.checkCallbacks[1] IN
         IF Truthy(answer.err) THEN ResolvePack(st, NewPack(Version), "rejected")
         ELSE IF ~answer.result THEN ResolvePack(st, NewPack(Version), "changed")
         ELSE ResolvePack(st, st.packPromise.cacheEntry, "reused")
    ELSE st

\* a constructor that reuses whatever Pack it finds
PackFileCacheStrategyAnyVersion(st) ==
    LET file == st.packFile IN
    IF file.k # "Pack" THEN ResolvePack(st, NewPack(Version), file.k)
    ELSE ResolvePack(st, deserialize(file), "reused")

\* the then and catch of the constructor (lines 1086-1134), run when
\* fileSerializer.deserialize has settled
PackFileCacheStrategy(st) ==
    LET file == st.packFile IN
    IF file.k # "Pack" THEN ResolvePack(st, NewPack(Version), file.k)
    ELSE LET cacheEntry == deserialize(file) IN
         IF cacheEntry.version # Version THEN ResolvePack(st, NewPack(Version), "version")
         ELSE IF ~Truthy(cacheEntry.buildSnapshot) THEN ResolvePack(st, cacheEntry, "reused")
         ELSE BuildDependenciesChecked(
                 checkSnapshotValid([st EXCEPT !.packPromise = PromiseChecking(cacheEntry)],
                                    cacheEntry.buildSnapshot))

\* afterAllStored that writes whether or not the pack is invalid
afterAllStoredAlways(st, tick, written) ==
    LET collected == collectGarbage(st.pack, TwoDays, st.now, st.now + tick)
        serialized == serialize(collected, st.now + tick)
    IN  [st EXCEPT !.now = @ + tick,
                   !.pack = serialized.pack,
                   !.packFile = IF written THEN serialized.image ELSE @,
                   !.packBase = IF written THEN OnDisk(serialized.image) ELSE @,
                   !.lastCall = [op |-> "afterAllStored", before |-> st.pack,
                                 fileBefore |-> st.packFile,
                                 collected |-> collected, maxAge |-> TwoDays,
                                 image |-> serialized.image,
                                 write |-> IF written THEN "written" ELSE "failed",
                                 logged |-> IF written THEN "Stored pack" ELSE "warn",
                                 rejected |-> FALSE]]

\* afterAllStored(); the clock moves on by tick between the two readings of
\* collectGarbage; the write succeeds or fails
afterAllStored(st, tick, written) ==
    IF ~st.pack.invalid
    THEN [st EXCEPT !.lastCall = [op |-> "afterAllStored", before |-> st.pack,
                                  fileBefore |-> st.packFile,
                                  collected |-> Undefined, maxAge |-> TwoDays,
                                  image |-> Undefined,
                                  write |-> "none", logged |-> "none",
                                  rejected |-> FALSE]]
    ELSE LET collected == collectGarbage(st.pack, TwoDays, st.now, st.now + tick)
             serialized == serialize(collected, st.now + tick)
         IN  [st EXCEPT !.now = @ + tick,
                        !.pack = serialized.pack,
                        !.packFile = IF written THEN serialized.image ELSE @,
                        !.packBase = IF written THEN OnDisk(serialized.image) ELSE @,
                        !.lastCall = [op |-> "afterAllStored", before |-> st.pack,
                                      fileBefore |-> st.packFile,
                                      collected |-> collected, maxAge |-> TwoDays,
                                      image |-> serialized.image,
                                      write |-> IF written THEN "written" ELSE "failed",
                                      logged |-> IF written THEN "Stored pack" ELSE "warn",
                                      rejected |-> FALSE]]

\* a lazy load of the identifier is pending
Loading(st, identifier) == \E load \in st.loads.pending : load.id = identifier

\* store(identifier, etag, data); a set that takes effect is remembered, with
\* whether a lazy load of the identifier was pending when it was called
store(st, identifier, etag, data) ==
    [st EXCEPT !.pack = set(@, identifier, etag, data),
               !.loads.lastSet[identifier] =
                   IF identifier \in st.pack.unserializable THEN @
                   ELSE [etag |-> etag, data |-> data,
                         duringLoad |-> Loading(st, identifier)],
               !.lastCall = [op |-> "store", id |-> identifier, etag |-> etag,
                             data |-> data, before |-> st.pack]]

\* restore(identifier, etag) of an entry held as a lazy loader, up to the call
\* of the loader: get marks the identifier used and returns a promise
\* (lines 919-924)
restoreLazy(st, identifier, etag) ==
    [st EXCEPT !.pack.used = @ \cup {identifier},
               !.loads.pending = @ \cup {[id |-> identifier, etag |-> etag,
                                          entry |-> st.pack.content[identifier].entry]},
               !.lastCall = [op |-> "restoreLazy", id |-> identifier, etag |-> etag,
                             before |-> st.pack]]

\* the then of that promise (line 923): the entry the loader yielded is
\* unpacked and its data is the value of the promise restore returned
lazyLoaded(st, load) ==
    [st EXCEPT !.pack = _unpack(@, load.id, load.entry, FALSE),
               !.loads.pending = @ \ {load},
               !.lastCall = [op |-> "lazyLoaded", id |-> load.id, etag |-> load.etag,
                             result |-> UnpackedData(load.entry), before |-> st.pack]]

\* restore(identifier, etag)
restore(st, identifier, etag) ==
    LET got == get(st.pack, identifier, etag) IN
    [st EXCEPT !.pack = got.pack,
               !.lastCall = [op |-> "restore", id |-> identifier, etag |-> etag,
                             result |-> got.result, before |-> st.pack]]

\* the then of storeBuildDependencies (lines 1182-1191), given the snapshot
\* createSnapshot called back with; a throwing mergeSnapshots rejects the promise
storeBuildDependencies(st, snapshot) ==
    LET mergedSnapshot ==
            IF Truthy(st.pack.buildSnapshot)
            THEN mergeSnapshots(st.pack.buildSnapshot, snapshot)
            ELSE snapshot
    IN  [st EXCEPT !.pack.buildSnapshot = IF mergedSnapshot = TypeError THEN @ ELSE mergedSnapshot,
                   !.lastCall = [op |-> "storeBuildDependencies", snapshot |-> snapshot,
                                 before |-> st.pack,
                                 rejected |-> mergedSnapshot = TypeError]]

----------------------------------------------------------------------------
(* Initial states *)

\* number of getFileHash calls made for one path
MaxCalls == 3

Callers == 1..MaxCalls

IdleCs ==
    [status |-> "idle", jobs |-> 0, startTime |-> Undefined, hash |-> FALSE,
     files |-> {}, directories |-> {}, missing |-> {}, managedItems |-> {},
     dispatched |-> {}, maps |-> NoMaps]

IdleCk == [status |-> "idle", jobs |-> Num(0), dispatched |-> {}, snapshot |-> Undefined]

\* no lazy load is pending and set has not been called
NoLoads == [pending |-> {}, lastSet |-> [id \in Ids |-> Absent]]

\* addFileTimestamps and getFileTimestamp have not been called
NoSeeds == [seeded |-> [p \in Paths |-> Absent], calls |-> 0, callbacks |-> <<>>]

\* no resolveBuildDependencies call
IdleResolve ==
    [status |-> "idle", files |-> {}, directories |-> {}, tasks |-> <<>>, running |-> <<>>,
     workers |-> 0, live |-> TRUE, callbacks |-> <<>>, pushed |-> <<>>, inserted |-> <<>>,
     thrown |-> FALSE]

\* the FileSystemInfo the constructor leaves (lines 82-123), no call made
Constructed ==
    [FS_ACCURACY |-> FsAccuracyInitial,
     _fileTimestamps |-> [p \in Paths |-> Undefined],
     _fileHashes |-> [p \in Paths |-> Undefined],
     _contextHashes |-> [p \in Paths |-> Undefined],
     _managedItems |-> [p \in Paths |-> Undefined],
     fileTimestampQueue |-> NewQueue(FileTimestampParallelism),
     fileHashQueue |-> NewQueue(FileHashParallelism),
     contextHashQueue |-> NewQueue(ContextHashParallelism),
     managedItemQueue |-> NewQueue(ManagedItemParallelism),
     nextTick |-> <<>>,
     fsAnswers |-> [q \in QueueNames \cup {"stat"} |-> [p \in Paths |-> NotRun]],
     cs |-> IdleCs,
     createCallbacks |-> <<>>,
     ck |-> IdleCk,
     checkCallbacks |-> <<>>,
     hashCalls |-> [i \in Callers |-> <<>>],
     hashCallbacks |-> [i \in Callers |-> <<>>],
     readFileHashRuns |-> [p \in Paths |-> 0],
     packFile |-> FileMissing,
     packPromise |-> NoPromise,
     pack |-> NotRun,
     now |-> 0,
     lastCall |-> NoCall,
     opsDone |-> 0,
     packBase |-> NothingOnDisk,
     contextReads |-> [p \in Paths |-> NoRead],
     hasher |-> "throws",
     rbd |-> IdleResolve,
     restarts |-> 0,
     loads |-> NoLoads,
     seeds |-> NoSeeds]

Start(st) ==
    /\ FS_ACCURACY = st.FS_ACCURACY
    /\ _fileTimestamps = st._fileTimestamps
    /\ _fileHashes = st._fileHashes
    /\ _contextHashes = st._contextHashes
    /\ _managedItems = st._managedItems
    /\ fileTimestampQueue = st.fileTimestampQueue
    /\ fileHashQueue = st.fileHashQueue
    /\ contextHashQueue = st.contextHashQueue
    /\ managedItemQueue = st.managedItemQueue
    /\ nextTick = st.nextTick
    /\ fsAnswers = st.fsAnswers
    /\ cs = st.cs
    /\ createCallbacks = st.createCallbacks
    /\ ck = st.ck
    /\ checkCallbacks = st.checkCallbacks
    /\ hashCalls = st.hashCalls
    /\ hashCallbacks = st.hashCallbacks
    /\ readFileHashRuns = st.readFileHashRuns
    /\ packFile = st.packFile
    /\ packPromise = st.packPromise
    /\ pack = st.pack
    /\ now = st.now
    /\ lastCall = st.lastCall
    /\ opsDone = st.opsDone
    /\ packBase = st.packBase
    /\ contextReads = st.contextReads
    /\ hasher = st.hasher
    /\ rbd = st.rbd
    /\ restarts = st.restarts
    /\ loads = st.loads
    /\ seeds = st.seeds

IdleFsi == Start(Constructed)

\* an earlier read of key by queue q, whose waiters are gone: the processor
\* ran and called back with outcome
EarlierRead(st, q, key, outcome) ==
    LET started == Answered(StartProcessor(st, q, key), q, key, outcome) IN
    CASE q = "fileTimestampQueue" -> readFileTimestamp(started, key, outcome)
      [] q = "fileHashQueue" -> readFileHash(started, key, outcome)
      [] q = "contextHashQueue" -> readContextHash(started, key, outcome)
      [] q = "managedItemQueue" -> getManagedItemInfo(started, key, outcome)

OneEntry(path, value) == [p \in Paths |-> IF p = path THEN value ELSE Absent]

\* the states a FileSystemInfo is in when createSnapshot is called: fresh,
\* seeded by addFileTimestamps, or after earlier reads that succeeded or failed
CreateSeeds ==
    {Constructed,
     addFileTimestamps(Constructed, OneEntry(PathA, Entry(1, 1))),
     addFileTimestamps(Constructed, OneEntry(PathM, Null)),
     EarlierRead(Constructed, "fileHashQueue", PathA, Content("c1")),
     EarlierRead(Constructed, "contextHashQueue", PathD, Names(<<>>)),
     EarlierRead(EarlierRead(Constructed, "fileTimestampQueue", PathM, Err("EBUSY")),
                 "fileHashQueue", PathA, Err("EBUSY"))}

InitCreate == \E seed \in CreateSeeds : Start(seed)

CreateSnapshot ==
    /\ cs.status = "idle"
    /\ \E startTime \in {Undefined, Num(MaxStartTime)},
          files \in SUBSET {PathA, PathNPLX},
          directories \in SUBSET {PathD, PathNP},
          missing \in SUBSET {PathM},
          hash \in BOOLEAN :
            Commit(createSnapshot(Cur, startTime, files, directories, missing, hash))

\* a snapshot with the given startTime and entries (map, path, value)
Snap(startTime, entries) ==
    LET Field(f) ==
            MapOrUndefined([p \in Paths |->
                IF \E e \in entries : e.map = f /\ e.path = p
                THEN (CHOOSE e \in entries : e.map = f /\ e.path = p).value
                ELSE Absent])
    IN  [k |-> "snapshot",
         startTime |-> startTime,
         fileTimestamps |-> Field("fileTimestamps"),
         fileHashes |-> Field("fileHashes"),
         contextTimestamps |-> Field("contextTimestamps"),
         contextHashes |-> Field("contextHashes"),
         missingTimestamps |-> Field("missingTimestamps"),
         managedItemInfo |-> Field("managedItemInfo")]

SnapEntry(map, path, value) == [map |-> map, path |-> path, value |-> value]

\* what createSnapshot stores for a file in timestamp mode: "error", null, the
\* entry of a file, the entry of a directory
TimestampValues == {Error, Null, Entry(2, 1), Entry(2, TimestampUndefined)}

\* snapshots that hold fileTimestamps only, of one path or two
TimestampSnapshots ==
    {Snap(startTime,
          {SnapEntry("fileTimestamps", p, value[p]) : p \in {q \in {PathA, PathB} : value[q] # Absent}}) :
        startTime \in StartTimes,
        value \in {v \in [{PathA, PathB} -> TimestampValues \cup {Absent}] :
                      \E p \in {PathA, PathB} : v[p] # Absent}}

\* the digest of a directory with no visible entry
EmptyDirectoryHash == Digest(UpdateAll(<<>>))

\* snapshots of the other maps, one entry each, and one with an entry in every
\* map that is checked by a read
OtherSnapshots ==
    {Snap(startTime, {entry}) :
        startTime \in {Undefined, Num(MaxStartTime)},
        entry \in {SnapEntry("fileHashes", PathA, Digest("c1")),
                   SnapEntry("fileHashes", PathA, Null),
                   SnapEntry("fileHashes", PathA, Error),
                   SnapEntry("contextTimestamps", PathD, Error),
                   SnapEntry("contextHashes", PathD, EmptyDirectoryHash),
                   SnapEntry("contextHashes", PathD, Error),
                   SnapEntry("missingTimestamps", PathM, Null),
                   SnapEntry("missingTimestamps", PathM, Entry(2, 1)),
                   SnapEntry("missingTimestamps", PathM, Error),
                   SnapEntry("managedItemInfo", PathNP, Error),
                   SnapEntry("managedItemInfo", PathNP, ManagedInfo(PackageJson("p", "1")))}}
    \cup
    {Snap(Num(MaxStartTime),
          {SnapEntry("fileTimestamps", PathA, Entry(2, 1)),
           SnapEntry("fileHashes", PathB, Digest("c1")),
           SnapEntry("contextHashes", PathD, EmptyDirectoryHash),
           SnapEntry("missingTimestamps", PathM, Null)} \cup managed) :
        managed \in {{}, {SnapEntry("managedItemInfo", PathNP, ManagedInfo(PackageJson("p", "1")))}}}

CheckSnapshots == TimestampSnapshots \cup OtherSnapshots

\* the states a FileSystemInfo is in when checkSnapshotValid is called: fresh,
\* seeded by addFileTimestamps, or after earlier reads that succeeded or failed
CheckSeeds ==
    {Constructed,
     addFileTimestamps(Constructed, OneEntry(PathA, Entry(1, 1))),
     addFileTimestamps(Constructed, OneEntry(PathA, Null)),
     EarlierRead(Constructed, "fileTimestampQueue", PathB, Err("EBUSY")),
     EarlierRead(EarlierRead(Constructed, "fileHashQueue", PathA, Content("c1")),
                 "contextHashQueue", PathD, Names(<<>>))}

InitCheck == \E seed \in CheckSeeds : Start(seed)

CheckSnapshotValid ==
    /\ ck.status = "idle"
    /\ \E snapshot \in CheckSnapshots : Commit(checkSnapshotValid(Cur, snapshot))

\* the paths getFileHash is called with
HashPaths == {PathA, PathB}

\* what a getFileHash call finds for its path: a cached hash, or the state of
\* the queue's entry
Arrival(path) ==
    IF _fileHashes[path] # Undefined THEN "cached" ELSE fileHashQueue.entries[path].state

\* caller id calls getFileHash(path, callback)
GetFileHash ==
    \E id \in Callers, path \in HashPaths :
        /\ hashCalls[id] = <<>>
        /\ Commit(getFileHash(
                [Cur EXCEPT !.hashCalls[id] = <<[path |-> path, arrival |-> Arrival(path)]>>],
                path, [op |-> "getFileHash", id |-> id]))

----------------------------------------------------------------------------
(* The strategy's steps *)

\* number of calls made on a strategy after its pack has resolved
MaxOps == 2

PackResolved == packPromise.status = "resolved" /\ opsDone < MaxOps

Counted(st) == [st EXCEPT !.opsDone = @ + 1]

\* fileSerializer.deserialize settles
StrategyConstructed ==
    /\ packPromise.status = "deserializing"
    /\ Commit(PackFileCacheStrategy(Cur))

\* fs.readFile calls back for a build dependency the constructor checks
BuildDependencyRead ==
    \E path \in Paths, outcome \in ReadFileOutcomes :
        /\ Processing(fileHashQueue, path)
        /\ Commit(BuildDependenciesChecked(
              readFileHash(Answered(Cur, "fileHashQueue", path, outcome), path, outcome)))

Store ==
    /\ PackResolved
    /\ \E identifier \in Ids, etag \in Etags, data \in Datas :
          Commit(Counted(store(Cur, identifier, etag, data)))

Restore ==
    /\ PackResolved
    /\ \E identifier \in Ids, etag \in Etags :
          Commit(Counted(restore(Cur, identifier, etag)))

\* the snapshots createSnapshot(undefined, ..., { hash: true }) calls back with
BuildSnapshots ==
    {Snap(Undefined, {}),
     Snap(Undefined, {SnapEntry("fileHashes", PathA, Digest("c1"))}),
     Snap(Undefined, {SnapEntry("contextHashes", PathD, EmptyDirectoryHash)})}

StoreBuildDependencies ==
    /\ PackResolved
    /\ \E snapshot \in BuildSnapshots :
          Commit(Counted(storeBuildDependencies(Cur, snapshot)))

AfterAllStored ==
    /\ PackResolved
    /\ \E tick \in {0, 1}, written \in BOOLEAN :
          Commit(Counted(afterAllStored(Cur, tick, written)))

\* pack.collectGarbage(maxAge) on its own; the clock moves on by tick between
\* its two readings
CollectGarbage ==
    /\ PackResolved
    /\ \E maxAge \in {0, 1, TwoDays}, tick \in {0, 1} :
          Commit(Counted(
             [Cur EXCEPT !.now = @ + tick,
                         !.pack = collectGarbage(@, maxAge, now, now + tick),
                         !.lastCall = [op |-> "collectGarbage", maxAge |-> maxAge,
                                       time1 |-> now, time2 |-> now + tick,
                                       before |-> pack]]))

\* time passes
Tick ==
    /\ PackResolved
    /\ \E elapsed \in {1, TwoDays} :
          Commit(Counted([Cur EXCEPT !.now = @ + elapsed, !.lastCall = NoCall]))

----------------------------------------------------------------------------
(* The pack files a strategy can find *)

\* what a pack held for one identifier before it was written: nothing, or
\* data and the size recorded when the pack was read
Held(data, lastSize) == [data |-> data, lastSize |-> lastSize]

\* written inline (no size recorded, or one up to the threshold) or lazy (a
\* size above the threshold recorded), each with data at the threshold, above
\* it, or not serializable
HeldVariety ==
    {Absent} \cup {Held(data, lastSize) :
                     data \in Datas, lastSize \in {Absent, Num(MAX_INLINE_SIZE + 1)}}

\* a pack of an earlier build, as it was when afterAllStored wrote it
EarlierPack(version, buildSnapshot, held) ==
    [NewPack(version) EXCEPT
        !.etags = [id \in Ids |-> IF held[id] = Absent THEN Absent ELSE Etag1],
        !.content = [id \in Ids |-> IF held[id] = Absent THEN Absent ELSE held[id].data],
        !.lastAccess = [id \in Ids |-> IF held[id] = Absent THEN Absent ELSE Num(0)],
        !.lastSizes = [id \in Ids |-> IF held[id] = Absent THEN Absent ELSE held[id].lastSize],
        !.buildSnapshot = buildSnapshot,
        !.invalid = TRUE]

OnlyFirst(held) == [id \in Ids |-> IF id = "i1" THEN held ELSE Absent]

PackFiles ==
    {FileMissing, FileUnreadable, FileEmpty, FileOther}
    \cup {serialize(EarlierPack(Version, Undefined,
                                [id \in Ids |-> IF id = "i1" THEN first ELSE second]), 0).image :
            first \in HeldVariety, second \in {Absent, Held(DataSmall, Absent)}}
    \cup {serialize(EarlierPack(version, buildSnapshot,
                                OnlyFirst(Held(DataSmall, Absent))), 0).image :
            version \in {Version, OlderVersion},
            buildSnapshot \in {Snap(Undefined, {SnapEntry("fileHashes", PathA, Digest("c1"))}),
                               Snap(Undefined, {SnapEntry("fileHashes", PathA, Error)}),
                               Snap(Undefined, {SnapEntry("managedItemInfo", PathNP, Error)})}}
    \cup {serialize(EarlierPack(OlderVersion, Undefined,
                                OnlyFirst(Held(DataSmall, Absent))), 0).image}

\* a strategy is constructed on a pack file; time has passed since the file
\* was written
InitStrategy ==
    \E file \in PackFiles :
        Start([Constructed EXCEPT !.packFile = file,
                                  !.packPromise = PromisePending,
                                  !.now = 1])

\* get finds a lazy loader for the identifier and calls it
RestoreLazy ==
    /\ PackResolved
    /\ \E identifier \in Ids, etag \in Etags :
          /\ pack.etags[identifier] = etag
          /\ pack.content[identifier] # Absent
          /\ pack.content[identifier].k = "function"
          /\ Commit(Counted(restoreLazy(Cur, identifier, etag)))

\* the promise of a lazy loader is fulfilled
LazyLoaded ==
    \E load \in loads.pending : Commit(lazyLoaded(Cur, load))

\* pack files that hold i1 as a lazy entry, with data at the threshold or
\* above it, and i2 not at all or inline
LazyFiles ==
    {serialize(EarlierPack(Version, Undefined,
                           [id \in Ids |-> IF id = "i1" THEN Held(data, Num(MAX_INLINE_SIZE + 1))
                                           ELSE second]), 0).image :
        data \in {DataSmall, DataBig}, second \in {Absent, Held(DataSmall, Absent)}}

InitLazy ==
    \E file \in LazyFiles :
        Start([Constructed EXCEPT !.packFile = file,
                                  !.packPromise = PromisePending,
                                  !.now = 1])

\* the number of times the process is started again
MaxRestarts == 1

\* the process ends and a new one constructs a strategy on the pack file the
\* old one left: nothing in memory survives, the file and the clock do
Restart ==
    /\ packPromise.status = "resolved"
    /\ restarts < MaxRestarts
    /\ Commit([Constructed EXCEPT !.packFile = packFile,
                                  !.packPromise = PromisePending,
                                  !.now = now,
                                  !.restarts = restarts + 1])

\* no pack file, or one that holds i1 inline with data at the threshold
RestartFiles ==
    {FileMissing,
     serialize(EarlierPack(Version, Undefined, OnlyFirst(Held(DataSmall, Absent))), 0).image}

InitRestart ==
    \E file \in RestartFiles :
        Start([Constructed EXCEPT !.packFile = file,
                                  !.packPromise = PromisePending,
                                  !.now = 1])

----------------------------------------------------------------------------
(* Reads of timestamps that move the accuracy estimate *)

\* mtimes that are odd, and multiples of 10, 100, 1000 and 2000 and of no
\* higher step; 2500 is the mtime of scenario S2
AccuracyMtimes == {1, 10, 100, 1000, 2500, 4000}

\* the paths whose timestamps are read, in the order the snapshot holds them
AccuracyPaths == <<PathA, PathB, PathD, PathM>>

\* snapshots with startTime 2000 and a timestamp entry for /a, as in scenario
\* S2, and for up to three more files
AccuracySnapshots ==
    {Snap(Num(2000),
          {SnapEntry("fileTimestamps", AccuracyPaths[i], Entry(4500, 2500)) : i \in 1..n}) :
        n \in 1..Len(AccuracyPaths)}

CheckAccuracySnapshot ==
    /\ ck.status = "idle"
    /\ \E snapshot \in AccuracySnapshots : Commit(checkSnapshotValid(Cur, snapshot))

\* fs.stat calls back with the stat of a file with a nonzero mtime
StatAnswered ==
    \E path \in Paths, mtime \in AccuracyMtimes :
        /\ Processing(fileTimestampQueue, path)
        /\ LET outcome == Stat(mtime, FALSE)
               after == readFileTimestamp(Answered(Cur, "fileTimestampQueue", path, outcome),
                                          path, outcome)
           IN  Commit([after EXCEPT !.lastCall =
                          [op |-> "readFileTimestamp", path |-> path, mtime |-> mtime,
                           before |-> FS_ACCURACY, entry |-> after._fileTimestamps[path]]])

----------------------------------------------------------------------------
(* The context hash of a directory tree *)

\* the visible entries each directory of the tree has
Visible(dir) ==
    IF dir = PathD THEN {NameF, NameS}
    ELSE IF dir = PathDS THEN {NameG}
    ELSE {}

\* the elements of S in every order
Orders(S) ==
    {s \in [1..Cardinality(S) -> S] : \A i, j \in 1..Cardinality(S) : i # j => s[i] # s[j]}

\* what fs.readdir can call back with for a directory: its visible entries,
\* with or without a hidden one, in any order
Listings(dir) == Orders(Visible(dir)) \cup Orders(Visible(dir) \cup {NameHidden})

\* the stat of an entry of a directory
ChildStat(isFile, isDirectory) ==
    [k |-> "stat", isFile |-> isFile, isDirectory |-> isDirectory]

\* /d/s is a directory or neither a file nor a directory, the others are
\* files or neither; or fs.stat fails
ChildStats(child) ==
    {Err("EBUSY"), ChildStat(FALSE, FALSE)}
        \cup (IF child = PathDS THEN {ChildStat(FALSE, TRUE)} ELSE {ChildStat(TRUE, FALSE)})

\* createSnapshot of the directory /d in hash mode
HashDirectory ==
    /\ cs.status = "idle"
    /\ Commit(createSnapshot(Cur, Undefined, {}, {PathD}, {}, TRUE))

\* fs.readdir calls back
ReaddirAnswered ==
    \E path \in Paths :
        /\ Processing(contextHashQueue, path)
        /\ fsAnswers["contextHashQueue"][path] = NotRun
        /\ \E outcome \in {Err("ENOENT"), Err("EBUSY")} \cup {Names(l) : l \in Listings(path)} :
              Commit(readContextHash(Answered(Cur, "contextHashQueue", path, outcome),
                                     path, outcome))

\* fs.stat of an entry calls back
ChildStatAnswered ==
    \E dir \in Paths :
        \E index \in 1..Len(contextReads[dir].stats) :
            /\ contextReads[dir].stats[index] = NotRun
            /\ \E outcome \in ChildStats(join(dir, contextReads[dir].files[index])) :
                  Commit(childStat(Cur, dir, index, outcome))

-----------------------------------------------------------------------------
(* resolveBuildDependencies (lines 189-352) *)

\* paths as the sequence of their segments: the root, the project /p with the
\* files a.js and b.js and the link l.js to a.js, and the package
\* /p/node_modules/q with the file i.js
Root == <<>>
DirP == <<"p">>
DirNM == <<"p", "node_modules">>
DirQ == <<"p", "node_modules", "q">>
FileA == <<"p", "a.js">>
FileB == <<"p", "b.js">>
FileL == <<"p", "l.js">>
FileQI == <<"p", "node_modules", "q", "i.js">>

\* dirname of util/fs: the parent, and the root for the root
dirname(path) == IF path = <<>> THEN path ELSE SubSeq(path, 1, Len(path) - 1)

\* the segments that begin with @
Scopes == {"@s"}

\* /(^.+[\\/]node_modules[\\/](?:@[^\\/]+[\\/])?[^\\/]+)/.exec(path): the
\* prefix up to the package of the innermost node_modules that has a parent
\* and an entry, a scoped package taking two segments; the path when there is
\* no match (lines 294-297)
PackagePath(path) ==
    LET at == {i \in 2..(Len(path) - 1) : path[i] = "node_modules"} IN
    IF at = {} THEN path
    ELSE LET i == CHOOSE x \in at : \A y \in at : y <= x
             scoped == i + 2 <= Len(path) /\ path[i + 1] \in Scopes
         IN  SubSeq(path, 1, IF scoped THEN i + 2 ELSE i + 1)

\* a dependency as given to resolveBuildDependencies: its characters in
\* tokens, "deps:" first when it has the prefix and "/" last when it names a
\* directory
ReqA == <<"./a.js">>
ReqL == <<"./l.js">>
ReqP == <<".", "/">>
ReqQ == <<"q">>
WithDeps(request) == <<"deps:">> \o request

\* enhanced-resolve: what a request resolves to
ResolveResult(request) ==
    CASE request = ReqA -> FileA
      [] request = ReqL -> FileL
      [] request = <<".">> -> DirP
      [] request = ReqQ -> DirQ

\* fs.realpath: l.js is a link to a.js
RealPath(path) == IF path = FileL THEN FileA ELSE path

\* module.children of require.cache[path]: a.js requires b.js, l.js and a
\* built-in module (no path); b.js requires a.js; nothing is known of i.js
Child(id, hasPath) == [id |-> id, path |-> hasPath]
NoModule == [k |-> "undefined"]
Module(children) == [k |-> "module", children |-> children]
RequireCache(path) ==
    CASE path = FileA -> Module(<<Child(FileB, TRUE), Child(<<"fs">>, FALSE), Child(FileL, TRUE)>>)
      [] path = FileB -> Module(<<Child(FileA, TRUE)>>)
      [] OTHER -> NoModule

\* what JSON.parse(content) of a package.json may be: a syntax error, null, an
\* object without dependencies, an object that depends on q
JsonInvalid == [k |-> "invalid"]
JsonNull == [k |-> "null"]
Manifest(dependencies) == [k |-> "object", dependencies |-> dependencies]
ManifestOutcomes ==
    {Err("ENOENT"), Err("EBUSY"), Content(JsonInvalid), Content(JsonNull),
     Content(Manifest(<<>>)), Content(Manifest(<<ReqQ>>))}

\* an item of the queue
NoContext == <<"undefined">>
Item(type, context, path) == [type |-> type, context |-> context, path |-> path]

\* the number of workers of the queue (line 340)
ResolveParallelism == 50

\* queue.push(item) from the worker of the item from: the item waits in the
\* queue; the push is remembered
Push(r, from, item) ==
    [r EXCEPT !.tasks = Append(@, item),
              !.pushed = Append(@, [from |-> from, item |-> item])]

RECURSIVE PushAll(_, _, _)
PushAll(r, from, items) ==
    IF items = <<>> THEN r ELSE PushAll(Push(r, from, Head(items)), from, Tail(items))

\* queue.drain (lines 341-343)
drain(r) ==
    IF r.live
    THEN [r EXCEPT !.callbacks =
             Append(@, [err |-> Null,
                        result |-> [files |-> r.files, directories |-> r.directories,
                                    missing |-> {}]])]
    ELSE r

\* queue.error (lines 344-347): callback(err); callback = () => {}
error(r, err) ==
    IF r.live
    THEN [r EXCEPT !.callbacks = Append(@, [err |-> err, result |-> Undefined]),
                   !.live = FALSE]
    ELSE [r EXCEPT !.live = FALSE]

\* the callback the queue hands to the worker: the worker is free again, an
\* error goes to queue.error, and queue.drain is called when nothing waits
\* and no worker is busy
TaskDone(r, err) ==
    LET freed == [r EXCEPT !.workers = @ - 1]
        told == IF Truthy(err) THEN error(freed, err) ELSE freed
    IN  IF Len(told.tasks) + told.workers = 0 THEN drain(told) ELSE told

\* the worker waits for the callback of resolve, fs.realpath or fs.readFile
Await(r, item) == [r EXCEPT !.running = Append(@, item)]

\* the items for the children of a module that have a path (lines 273-280)
ChildItems(children) ==
    LET withPath == SelectSeq(children, LAMBDA child : child.path)
    IN  [i \in 1..Len(withPath) |-> Item("file", NoContext, withPath[i].id)]

\* the worker up to its first callback (lines 193-339)
Worker(r, item) ==
    CASE item.type \in {"resolve", "resolve-directory", "directory-dependencies"} ->
            Await(r, item)
      [] item.type = "file" ->
            IF item.path \in r.files THEN TaskDone(r, Undefined) ELSE Await(r, item)
      [] item.type = "directory" ->
            IF item.path \in r.directories THEN TaskDone(r, Undefined) ELSE Await(r, item)
      [] item.type = "file-dependencies" ->
            LET module == RequireCache(item.path) IN
            IF module.k = "module"
            THEN TaskDone(PushAll(r, item, ChildItems(module.children)), Undefined)
            ELSE TaskDone(Push(r, item, Item("directory", NoContext, dirname(item.path))),
                          Undefined)

\* the queue starts the waiting items, first in first out, while a worker is
\* free
RECURSIVE Process(_)
Process(r) ==
    IF r.tasks = <<>> \/ r.workers >= ResolveParallelism THEN r
    ELSE Process(Worker([r EXCEPT !.tasks = Tail(@), !.workers = @ + 1], Head(r.tasks)))

\* the worker of running[index] is called back: the item is no longer awaited
Called(r, index) ==
    [r EXCEPT !.running = SubSeq(@, 1, index - 1) \o SubSeq(@, index + 1, Len(@))]

\* const isDeps = /^deps:/.test(path), path.slice(5), const isDirectory =
\* /[\\/]$/.test(path) and path.replace(/[\\/]$/, "") (lines 196-203)
isDeps(path) == path # <<>> /\ path[1] = "deps:"
slice5(path) == Tail(path)
isDirectory(path) == path # <<>> /\ path[Len(path)] \in {"/", "\\"}
withoutSlash(path) == IF isDirectory(path) THEN SubSeq(path, 1, Len(path) - 1) ELSE path

\* what is handed to resolve or resolveContext for a resolve item
Request(item) ==
    IF item.type = "resolve"
    THEN withoutSlash(IF isDeps(item.path) THEN slice5(item.path) ELSE item.path)
    ELSE item.path

\* the callback of resolve and resolveContext (lines 203-233)
resolved(r, item, err, result) ==
    IF Truthy(err) THEN Process(TaskDone(r, err))
    ELSE LET deps == item.type = "resolve" /\ isDeps(item.path)
             directory ==
                 \/ item.type = "resolve-directory"
                 \/ isDirectory(IF isDeps(item.path) THEN slice5(item.path) ELSE item.path)
             type == IF directory
                     THEN (IF deps THEN "directory-dependencies" ELSE "directory")
                     ELSE (IF deps THEN "file-dependencies" ELSE "file")
         IN  Process(TaskDone(Push(r, item, Item(type, NoContext, result)), Undefined))

\* the callback of fs.realpath for a file or directory item (lines 240-266)
realpathed(r, item, err, realPath) ==
    IF Truthy(err) THEN Process(TaskDone(r, err))
    ELSE LET seen == IF item.type = "file" THEN r.files ELSE r.directories
             added == IF item.type = "file"
                      THEN [r EXCEPT !.files = @ \cup {realPath},
                                     !.inserted = Append(@, [set |-> "files", path |-> realPath])]
                      ELSE [r EXCEPT !.directories = @ \cup {realPath},
                                     !.inserted = Append(@, [set |-> "directories",
                                                             path |-> realPath])]
             type == IF item.type = "file" THEN "file-dependencies"
                     ELSE "directory-dependencies"
         IN  IF realPath \notin seen
             THEN Process(TaskDone(Push(added, item, Item(type, NoContext, realPath)),
                                   Undefined))
             ELSE Process(TaskDone(r, Undefined))

\* the callback of fs.readFile(packageJson) (lines 299-335): ENOENT ascends
\* to the parent, another error and a syntax error fail the item;
\* packageData.dependencies of null throws outside the try, so that the
\* callback of the worker is never called
packageJsonRead(r, item, outcome) ==
    LET packagePath == PackagePath(item.path) IN
    IF outcome.k = "Error"
    THEN IF outcome.code = "ENOENT"
         THEN LET parent == dirname(packagePath) IN
              IF parent # packagePath
              THEN Process(TaskDone(Push(r, item,
                                         Item("directory-dependencies", NoContext, parent)),
                                    Undefined))
              ELSE Process(TaskDone(r, Undefined))
         ELSE Process(TaskDone(r, outcome))
    ELSE IF outcome.v = JsonInvalid THEN Process(TaskDone(r, Str("SyntaxError")))
    ELSE IF outcome.v = JsonNull THEN [r EXCEPT !.thrown = TRUE]
    ELSE LET depsObject == outcome.v.dependencies
             items == [i \in 1..Len(depsObject) |->
                          Item("resolve-directory", packagePath, depsObject[i])]
         IN  Process(TaskDone(PushAll(r, item, items), Undefined))

\* resolveBuildDependencies(context, deps, callback) (lines 189-352): the sets,
\* the queue and a resolve item for each dep
resolveBuildDependencies(r, context, deps) ==
    PushAll([IdleResolve EXCEPT !.status = "called"],
            Item("call", NoContext, context),
            [i \in 1..Len(deps) |-> Item("resolve", context, deps[i])])

\* the lists of deps
DepLists ==
    {<<>>, <<ReqA>>, <<WithDeps(ReqA)>>, <<ReqP>>, <<WithDeps(ReqP)>>, <<ReqL, ReqA>>}

ResolveBuildDependencies ==
    /\ rbd.status = "idle"
    /\ \E deps \in DepLists :
          Commit([Cur EXCEPT !.rbd = resolveBuildDependencies(rbd, DirP, deps)])

\* the queue starts the items pushed by resolveBuildDependencies
QueueProcess ==
    /\ rbd.tasks # <<>>
    /\ Commit([Cur EXCEPT !.rbd = Process(rbd)])

\* resolve or resolveContext calls back
Resolved ==
    \E index \in 1..Len(rbd.running) :
        LET item == rbd.running[index] IN
        /\ item.type \in {"resolve", "resolve-directory"}
        /\ \/ Commit([Cur EXCEPT !.rbd = resolved(Called(rbd, index), item,
                                                  Err("ENOENT"), Undefined)])
           \/ Commit([Cur EXCEPT !.rbd = resolved(Called(rbd, index), item, Null,
                                                  ResolveResult(Request(item)))])

\* fs.realpath calls back
RealpathAnswered ==
    \E index \in 1..Len(rbd.running) :
        LET item == rbd.running[index] IN
        /\ item.type \in {"file", "directory"}
        /\ \/ Commit([Cur EXCEPT !.rbd = realpathed(Called(rbd, index), item,
                                                    Err("EBUSY"), Undefined)])
           \/ Commit([Cur EXCEPT !.rbd = realpathed(Called(rbd, index), item, Null,
                                                    RealPath(item.path))])

\* fs.readFile of a package.json calls back
PackageJsonRead ==
    \E index \in 1..Len(rbd.running) :
        LET item == rbd.running[index] IN
        /\ item.type = "directory-dependencies"
        /\ \E outcome \in ManifestOutcomes :
              Commit([Cur EXCEPT !.rbd = packageJsonRead(Called(rbd, index), item, outcome)])

----------------------------------------------------------------------------
(* Timestamps a caller seeds while reads are under way *)

\* the entries a caller seeds: a file that does not exist, and a file changed
\* at a time no stat of the model reports
SeedEntries == {Null, Entry(9000, 7000)}

\* the paths seeded and asked for
SeedPaths == {PathA, PathB}

\* addFileTimestamps(map) with one path in the map
AddFileTimestamps ==
    \E path \in SeedPaths, entry \in SeedEntries :
        /\ seeds.seeded[path] # entry
        /\ Commit([addFileTimestamps(Cur, OneEntry(path, entry))
                      EXCEPT !.seeds.seeded[path] = entry])

\* getFileTimestamp(path, callback); the call remembers what was seeded for
\* the path when it was made
GetFileTimestamp ==
    /\ seeds.calls < MaxCalls
    /\ \E path \in SeedPaths :
          Commit(getFileTimestamp([Cur EXCEPT !.seeds.calls = @ + 1], path,
                                  [op |-> "getFileTimestamp", path |-> path,
                                   seeded |-> seeds.seeded[path]]))

----------------------------------------------------------------------------
(* A snapshot of the build dependencies, created and then checked *)

\* what the file system can answer to the call of each queue's processor
OutcomesOf(q) ==
    CASE q = "fileTimestampQueue" -> StatOutcomes
      [] q = "fileHashQueue" -> ReadFileOutcomes
      [] q = "contextHashQueue" -> ReaddirOutcomes
      [] q = "managedItemQueue" -> PackageJsonOutcomes

\* the callback each queue's processor hands to the file system
ReadAnswered(st, q, path, outcome) ==
    LET answered == Answered(st, q, path, outcome) IN
    CASE q = "fileTimestampQueue" -> readFileTimestamp(answered, path, outcome)
      [] q = "fileHashQueue" -> readFileHash(answered, path, outcome)
      [] q = "contextHashQueue" -> readContextHash(answered, path, outcome)
      [] q = "managedItemQueue" -> getManagedItemInfo(answered, path, outcome)

\* no file changes: a call the file system answered before is answered the
\* same way again
FileUnchanged(q, path, outcome) == fsAnswers[q][path] \in {NotRun, outcome}

\* the file system calls back, in any order among the reads under way
UnchangedFileRead ==
    \E q \in QueueNames, path \in Paths :
        /\ Processing(Cur[q], path)
        /\ \E outcome \in OutcomesOf(q) :
              /\ FileUnchanged(q, path, outcome)
              /\ Commit(ReadAnswered(Cur, q, path, outcome))

\* storeBuildDependencies (lines 1169-1175):
\* createSnapshot(undefined, files, directories, missing, { hash: true }, ...)
CreateBuildSnapshot ==
    /\ cs.status = "idle"
    /\ \E files \in SUBSET {PathA, PathNPLX},
          directories \in SUBSET {PathD, PathNP},
          missing \in SUBSET {PathM} :
            Commit(createSnapshot(Cur, Undefined, files, directories, missing, TRUE))

\* checkSnapshotValid(snapshot, callback) with the snapshot createSnapshot
\* called back with, on the same FileSystemInfo
CheckCreatedSnapshot ==
    /\ ck.status = "idle"
    /\ createCallbacks # <<>>
    /\ Commit(checkSnapshotValid(Cur, createCallbacks[1].snapshot))

----------------------------------------------------------------------------
(* Specifications *)

InitPureManaged == InitManagedItem /\ IdleMerge /\ IdleFsi
NextPureManaged == GetManagedItem /\ UNCHANGED <<snapshot1, snapshot2, merged, fsiVars>>
SpecManagedItem == InitPureManaged /\ [][NextPureManaged]_vars

InitPureMerge == InitMerge /\ IdleManagedItem /\ IdleFsi
NextPureMerge == MergeSnapshots /\ UNCHANGED <<miPath, miItem, fsiVars>>
SpecMerge == InitPureMerge /\ [][NextPureMerge]_vars

IdlePure == IdleManagedItem /\ IdleMerge

\* one createSnapshot call and the reads it waits for
InitCreateSnapshot == InitCreate /\ IdlePure
NextCreateSnapshot == CreateSnapshot \/ QueueSteps
SpecCreate == InitCreateSnapshot /\ [][NextCreateSnapshot]_vars

\* one checkSnapshotValid call and the reads it waits for (it never reads a
\* managed item)
InitCheckSnapshot == InitCheck /\ IdlePure
NextCheckSnapshot ==
    \/ CheckSnapshotValid
    \/ FileTimestampRead
    \/ FileHashRead
    \/ ContextHashRead
    \/ NextTickRun
SpecCheck == InitCheckSnapshot /\ [][NextCheckSnapshot]_vars

\* getFileHash calls of several callers and the reads of the file-hash queue
InitGetFileHash == IdleFsi /\ IdlePure
NextGetFileHash ==
    \/ GetFileHash
    \/ FileHashRead
    \/ NextTickRun
SpecHash == InitGetFileHash /\ [][NextGetFileHash]_vars

\* one strategy: its construction on a pack file and the calls made on it
InitPack == InitStrategy /\ IdlePure
NextPack ==
    \/ StrategyConstructed
    \/ BuildDependencyRead
    \/ Store
    \/ Restore
    \/ StoreBuildDependencies
    \/ AfterAllStored
    \/ CollectGarbage
    \/ Tick
SpecPack == InitPack /\ [][NextPack]_vars

\* the same with the calls a build makes on the strategy only
NextStrategy ==
    \/ StrategyConstructed
    \/ BuildDependencyRead
    \/ Store
    \/ Restore
    \/ StoreBuildDependencies
    \/ AfterAllStored
    \/ Tick
SpecStrategy == InitPack /\ [][NextStrategy]_vars

\* stores and restores of a pack with lazy entries, the loads taking time
NextLazy ==
    \/ StrategyConstructed
    \/ Store
    \/ Restore
    \/ RestoreLazy
    \/ LazyLoaded
InitLazyPack == InitLazy /\ IdlePure
SpecLazy == InitLazyPack /\ [][NextLazy]_vars

\* builds that store, restore and persist, with the process started again
NextRestart ==
    \/ StrategyConstructed
    \/ Store
    \/ Restore
    \/ AfterAllStored
    \/ Tick
    \/ Restart
InitRestartPack == InitRestart /\ IdlePure
SpecRestart == InitRestartPack /\ [][NextRestart]_vars

InitContextHash ==
    /\ \E h \in Hashers : Start([Constructed EXCEPT !.hasher = h])
    /\ IdlePure
NextContextHash ==
    \/ HashDirectory
    \/ ReaddirAnswered
    \/ ChildStatAnswered
    \/ FileHashRead
SpecContextHash == InitContextHash /\ [][NextContextHash]_vars

InitSeed == Start(Constructed) /\ IdlePure
NextSeed ==
    \/ AddFileTimestamps
    \/ GetFileTimestamp
    \/ FileTimestampRead
    \/ NextTickRun
SpecSeed == InitSeed /\ [][NextSeed]_vars

InitResolve == Start(Constructed) /\ IdlePure
NextResolve ==
    \/ ResolveBuildDependencies
    \/ QueueProcess
    \/ Resolved
    \/ RealpathAnswered
    \/ PackageJsonRead
SpecResolve == InitResolve /\ [][NextResolve]_vars

InitAccuracy == Start(Constructed) /\ IdlePure
NextAccuracy ==
    \/ CheckAccuracySnapshot
    \/ StatAnswered
SpecAccuracy == InitAccuracy /\ [][NextAccuracy]_vars

InitRoundTrip == InitCreate /\ IdlePure
NextRoundTrip ==
    \/ CreateBuildSnapshot
    \/ UnchangedFileRead
    \/ NextTickRun
    \/ CheckCreatedSnapshot
SpecRoundTrip == InitRoundTrip /\ [][NextRoundTrip]_vars

----------------------------------------------------------------------------
(* Claims about getManagedItem and mergeSnapshots *)

IsSeparator(c) == c \in {Slash, Backslash}

\* index of the first separator of s after position from, Len(s) + 1 if none
RECURSIVE NextSeparator(_, _)
NextSeparator(s, from) ==
    IF from >= Len(s) THEN Len(s) + 1
    ELSE IF IsSeparator(s[from + 1]) THEN from + 1
    ELSE NextSeparator(s, from + 1)

\* the package directory of a path beneath root: root plus the first segment,
\* or root plus "@scope/name" when the first segment starts with "@"
PackageDirectory(root, path) ==
    LET r == SubSeq(path, Len(root) + 1, Len(path))
        first == NextSeparator(r, 0)
        second == NextSeparator(r, first)
    IN  IF r # <<>> /\ r[1] = AtSign
        THEN SliceTo(path, Len(root) + second - 1)
        ELSE SliceTo(path, Len(root) + first - 1)

\* C5: for every path beneath a managed root, the managed item computed is the
\* package directory directly beneath the root (root plus the first segment,
\* or root plus @scope/name), so all paths of one package give the same item.
C5_ManagedItemIsPackageDirectory ==
    miItem # NotRun =>
        miItem.v = PackageDirectory(managedPathsWithSlash[1], miPath)

BothHave(f) == snapshot1[f].k = "map" /\ snapshot2[f].k = "map"
EitherHas(f) == snapshot1[f].k = "map" \/ snapshot2[f].k = "map"
KeysOf(mapOrUndefined) ==
    IF mapOrUndefined.k = "map" THEN MapKeys(mapOrUndefined.m) ELSE {}

\* C6: mergeSnapshots(a, b) returns normally and, for each of the six maps,
\* the result has the map whenever a or b has it; its keys are the union of
\* both sides' keys; on a key both sides have the value is b's, and on a key
\* only one side has the value is that side's.
C6_MergeIsUnion ==
    merged # NotRun =>
        /\ merged.k = "snapshot"
        /\ \A f \in MapFields :
             EitherHas(f) =>
                /\ merged[f].k = "map"
                /\ MapKeys(merged[f].m) = KeysOf(snapshot1[f]) \cup KeysOf(snapshot2[f])
                /\ \A key \in KeysOf(snapshot2[f]) :
                      merged[f].m[key] = snapshot2[f].m[key]
                /\ \A key \in KeysOf(snapshot1[f]) \ KeysOf(snapshot2[f]) :
                      merged[f].m[key] = snapshot1[f].m[key]

DisjointKeys ==
    \A f \in MapFields : KeysOf(snapshot1[f]) \cap KeysOf(snapshot2[f]) = {}

\* C7: mergeSnapshots(s, s) equals s field by field, and for snapshots a and b
\* whose maps have disjoint key sets mergeSnapshots(a, b) equals
\* mergeSnapshots(b, a).
C7_MergeIdempotentCommutative ==
    merged # NotRun =>
        /\ snapshot1 = snapshot2 => merged = snapshot1
        /\ DisjointKeys => merged = mergeSnapshots(snapshot2, snapshot1)

\* C8: when mergeSnapshots returns, its startTime is the minimum of the two
\* startTimes when both are set, the one that is set when exactly one is, and
\* absent when neither is; it is never greater than an input's startTime.
C8_MergedStartTimeIsMin ==
    (merged # NotRun /\ merged.k = "snapshot") =>
        LET t1 == snapshot1.startTime
            t2 == snapshot2.startTime
            t == merged.startTime
        IN  /\ (t1.k = "number" /\ t2.k = "number") =>
                 /\ t.k = "number"
                 /\ t.v \in {t1.v, t2.v}
                 /\ t.v <= t1.v /\ t.v <= t2.v
            /\ (t1.k = "number" /\ t2.k = "undefined") => t = t1
            /\ (t1.k = "undefined" /\ t2.k = "number") => t = t2
            /\ (t1.k = "undefined" /\ t2.k = "undefined") => t = Undefined

\* a merge that returned, of two snapshots with different startTimes, the
\* first one's being the larger
C8_Witness ==
    /\ merged # NotRun
    /\ merged.k = "snapshot"
    /\ snapshot1.startTime.k = "number"
    /\ snapshot2.startTime.k = "number"
    /\ snapshot1.startTime.v > snapshot2.startTime.v
    /\ merged.startTime = snapshot2.startTime
    /\ \E f \in MapFields : BothHave(f)

----------------------------------------------------------------------------
(* Claims about createSnapshot *)

PerFileMaps == MapFields \ {"managedItemInfo"}

\* key is path or a directory above it
Covers(key, path) ==
    /\ StartsWith(path, key)
    /\ Len(path) = Len(key) \/ IsSeparator(path[Len(key) + 1])

\* the snapshot handed to the callback of createSnapshot
Produced == createCallbacks[1].snapshot

\* C4: in timestamp mode and in hash mode, no key of fileTimestamps,
\* fileHashes, contextTimestamps, contextHashes or missingTimestamps of the
\* produced snapshot starts with a managed root followed by a separator, and
\* every input path beneath a managed root is covered by exactly one
\* managedItemInfo entry.
C4_ManagedPathsFolded ==
    createCallbacks # <<>> =>
        /\ \A f \in PerFileMaps : \A key \in SnapshotKeys(Produced, f) : ~IsManaged(key)
        /\ \A p \in cs.files \cup cs.directories \cup cs.missing :
              IsManaged(p) =>
                 Cardinality({key \in SnapshotKeys(Produced, "managedItemInfo") :
                                 Covers(key, p)}) = 1

\* the callbacks of the createSnapshot call that have not run yet
CsPending ==
    {c \in cs.dispatched :
        \/ \E q \in QueueNames, p \in Paths :
              \E i \in 1..Len(Cur[q].entries[p].callbacks) : Cur[q].entries[p].callbacks[i] = c
        \/ \E i \in 1..Len(nextTick) : nextTick[i].callback = c}

\* C9: createSnapshot invokes its callback at most once, not before every
\* read it dispatched has completed and as soon as the last one has, with
\* a snapshot and no error; in the maps of files, directories and missing
\* paths a dispatched path whose read failed with an error other than ENOENT
\* is recorded as ERROR, and one that does not exist as None (null).
C9_CreateCallsBackOnce ==
    /\ Len(createCallbacks) <= 1
    /\ createCallbacks # <<>> => CsPending = {}
    /\ (cs.status = "called" /\ CsPending = {}) => Len(createCallbacks) = 1
    /\ createCallbacks # <<>> =>
          /\ createCallbacks[1].err = Null
          /\ Produced.k = "snapshot"
          /\ \A c \in cs.dispatched :
                c.map \in PerFileMaps =>
                   LET answer == fsAnswers[QueueOf(c.map)][c.path]
                       recorded == Produced[c.map].m[c.path]
                   IN  /\ (answer.k = "Error" /\ answer.code # "ENOENT") => recorded = Error
                       /\ (answer.k = "Error" /\ answer.code = "ENOENT") => recorded = Null
                       /\ answer.k # "Error" => recorded \notin {Error, Null, Absent}

\* a call that dispatched three reads or more, called back, and recorded a
\* failed read as ERROR and a missing path as null
C9_Witness ==
    /\ Len(createCallbacks) = 1
    /\ Cardinality(cs.dispatched) >= 3
    /\ \E c \in cs.dispatched :
          /\ c.map \in PerFileMaps
          /\ fsAnswers[QueueOf(c.map)][c.path] = Err("EBUSY")
          /\ Produced[c.map].m[c.path] = Error
    /\ \E c \in cs.dispatched :
          /\ c.map \in PerFileMaps
          /\ fsAnswers[QueueOf(c.map)][c.path] = Err("ENOENT")
          /\ Produced[c.map].m[c.path] = Null

----------------------------------------------------------------------------
(* Claims about checkSnapshotValid *)

\* the callbacks of the checkSnapshotValid call that have not run yet
CkPending ==
    {c \in ck.dispatched :
        \/ \E q \in QueueNames, p \in Paths :
              \E i \in 1..Len(Cur[q].entries[p].callbacks) : Cur[q].entries[p].callbacks[i] = c
        \/ \E i \in 1..Len(nextTick) : nextTick[i].callback = c}

CkCompleted == ck.dispatched \ CkPending

\* the read behind a completed callback failed, or its predicate did
CkFailed(c) ==
    LET e == Cur[QueueOf(c.map)].entries[c.path] IN
    \/ Truthy(e.error)
    \/ ~RunCheck(CheckOf(c.map), e.result, c.snap, ck.snapshot.startTime)

\* the keys of a map of the snapshot that were answered from the cache
CkCachedKeys(map) ==
    {p \in SnapshotKeys(ck.snapshot, map) :
        ~\E c \in ck.dispatched : c.map = map /\ c.path = p}

\* a predicate failed in the call itself, or in a completion so far
CkAnyFailure ==
    \/ \E i \in 1..Len(CheckedMaps) :
          \E p \in CkCachedKeys(CheckedMaps[i]) :
              ~RunCheck(CheckOf(CheckedMaps[i]), CacheOf(Cur, CheckedMaps[i])[p],
                        ck.snapshot[CheckedMaps[i]].m[p], ck.snapshot.startTime)
    \/ SnapshotKeys(ck.snapshot, "contextTimestamps") # {}
    \/ \E c \in CkCompleted : CkFailed(c)

Reported(result) == <<[err |-> Null, result |-> result]>>

\* C1: checkSnapshotValid invokes its callback at most once and never with
\* an error; once a predicate has failed or a read has errored it has reported
\* false and no later completion adds a report; it has reported true exactly
\* when every dispatched read has completed and none failed; and while reads
\* are pending and nothing failed it has not reported.
C1_CheckCallsBackOnce ==
    ck.status = "called" =>
        /\ Len(checkCallbacks) <= 1
        /\ \A i \in 1..Len(checkCallbacks) : checkCallbacks[i].err = Null
        /\ CkAnyFailure => checkCallbacks = Reported(FALSE)
        /\ (~CkAnyFailure /\ CkPending = {}) => checkCallbacks = Reported(TRUE)
        /\ (~CkAnyFailure /\ CkPending # {}) => checkCallbacks = <<>>

\* two reads of one call have failed, one after the other, and false was
\* reported once
C1_Witness ==
    /\ ck.status = "called"
    /\ Cardinality({c \in CkCompleted : CkFailed(c)}) >= 2
    /\ CkPending = {}
    /\ checkCallbacks = Reported(FALSE)

\* the snapshot of the call holds fileTimestamps and nothing else
OnlyFileTimestamps ==
    /\ ck.status = "called"
    /\ ck.snapshot.fileTimestamps.k = "map"
    /\ \A f \in MapFields \ {"fileTimestamps"} : ck.snapshot[f] = Undefined

\* the read of path by the file-timestamp queue ended with an error
TimestampReadFailed(path) ==
    /\ _fileTimestamps[path] = Undefined
    /\ Truthy(fileTimestampQueue.entries[path].error)

\* the current entry of path: from the cache or from the fresh read
CurrentTimestamp(path) ==
    IF _fileTimestamps[path] # Undefined THEN _fileTimestamps[path]
    ELSE fileTimestampQueue.entries[path].result

\* the four conditions of checkFile as the specification words them
CheckFileHolds(current, snap, startTime) ==
    /\ snap # Error
    /\ ~(current.k = "entry" /\ startTime.k = "number" /\ current.safeTime > startTime.v)
    /\ (current = Null) = (snap = Null)
    /\ (current # Null /\ snap # Null /\ snap.timestamp # TimestampUndefined)
          => current.timestamp = snap.timestamp

\* C2: for a snapshot that holds only fileTimestamps, checkSnapshotValid
\* reports true only when every read has completed, and once they have it
\* has reported true iff for every path the read did not fail and the current
\* entry and the snapshot entry satisfy checkFile: the snapshot entry is not
\* ERROR, the current safeTime is not greater than the startTime, both agree
\* on existence, and a defined snapshot timestamp equals the current one.
C2_ValidIffCheckFile ==
    OnlyFileTimestamps =>
        /\ checkCallbacks = Reported(TRUE) => CkPending = {}
        /\ CkPending = {} =>
              checkCallbacks =
                 Reported(\A p \in SnapshotKeys(ck.snapshot, "fileTimestamps") :
                             /\ ~TimestampReadFailed(p)
                             /\ CheckFileHolds(CurrentTimestamp(p),
                                               ck.snapshot.fileTimestamps.m[p],
                                               ck.snapshot.startTime))

\* S1: the entry is cached with a safeTime below the startTime, the snapshot
\* has the same timestamp, no read was made, and true was reported
C2_Witness ==
    /\ OnlyFileTimestamps
    /\ SnapshotKeys(ck.snapshot, "fileTimestamps") = {PathA}
    /\ _fileTimestamps[PathA].k = "entry"
    /\ ck.snapshot.startTime.k = "number"
    /\ ck.snapshot.fileTimestamps.m[PathA].k = "entry"
    /\ ck.snapshot.fileTimestamps.m[PathA].timestamp = _fileTimestamps[PathA].timestamp
    /\ _fileTimestamps[PathA].safeTime < ck.snapshot.startTime.v
    /\ ck.dispatched = {}
    /\ \A q \in QueueNames, p \in Paths : fsAnswers[q][p] = NotRun
    /\ checkCallbacks = Reported(TRUE)

\* the current info of a managed item: from the _managedItems cache or from
\* the read of the managed-item queue
CurrentManagedInfo(item) ==
    IF _managedItems[item] # Undefined THEN _managedItems[item]
    ELSE managedItemQueue.entries[item].result

\* C3: checkSnapshotValid reports true only if no managedItemInfo entry of
\* the snapshot is ERROR and every entry equals the current info of its
\* managed item.
C3_ManagedItemInfoChecked ==
    checkCallbacks = Reported(TRUE) =>
        \A item \in SnapshotKeys(ck.snapshot, "managedItemInfo") :
            /\ ck.snapshot.managedItemInfo.m[item] # Error
            /\ ck.snapshot.managedItemInfo.m[item] = CurrentManagedInfo(item)

----------------------------------------------------------------------------
(* Claims about getFileHash *)

\* the callers whose getFileHash(path) arrived before the first one completed
Concurrent(path) ==
    {id \in Callers :
        /\ hashCalls[id] # <<>>
        /\ hashCalls[id][1].path = path
        /\ hashCalls[id][1].arrival \in {"none", "queued", "processing"}}

\* what _readFileHash hands on for an answer of fs.readFile
HashOutcome(answer) ==
    IF answer.k = "Error"
    THEN IF answer.code = "ENOENT" THEN [err |-> Null, result |-> Null]
         ELSE [err |-> answer, result |-> Undefined]
    ELSE [err |-> Null, result |-> Digest(answer.v)]

\* C10: for every path, the getFileHash calls that arrive before the first
\* one completes make _readFileHash run exactly once for the path; none of
\* their callbacks runs before the read completes, and when it has completed
\* each has run once, all with the same (err, value), the outcome of that read.
C10_GetFileHashCoalesces ==
    \A path \in HashPaths :
        Concurrent(path) # {} =>
            /\ readFileHashRuns[path] = 1
            /\ fileHashQueue.entries[path].state # "done" =>
                  \A id \in Concurrent(path) : hashCallbacks[id] = <<>>
            /\ fileHashQueue.entries[path].state = "done" =>
                  /\ \A id \in Concurrent(path) :
                        hashCallbacks[id] = <<HashOutcome(fsAnswers["fileHashQueue"][path])>>
                  /\ \A id1, id2 \in Concurrent(path) : hashCallbacks[id1] = hashCallbacks[id2]

\* three calls for one path arrived while its read was under way, the read
\* ran once and all three were called back
C10_Witness ==
    /\ Cardinality(Concurrent(PathA)) >= 3
    /\ readFileHashRuns[PathA] = 1
    /\ \A id \in Concurrent(PathA) : Len(hashCallbacks[id]) = 1

----------------------------------------------------------------------------
(* Claims about the pack and the pack file cache strategy *)

\* the pack file is a Pack of the configured version whose build snapshot is
\* absent or was reported valid by checkSnapshotValid
Reusable ==
    /\ packFile.k = "Pack"
    /\ packFile.version = Version
    /\ \/ packFile.buildSnapshot = Undefined
       \/ checkCallbacks = Reported(TRUE)

\* the promise of the constructor has resolved and nothing was called since
JustResolved == packPromise.status = "resolved" /\ opsDone = 0

\* C11: the pack promise is never rejected and the pack it resolves to has the
\* configured version; the pack is the one read from the file exactly when the
\* file holds a Pack of that version whose build snapshot is absent or valid
\* per checkSnapshotValid, and in every other case (file missing, unreadable,
\* not a Pack, other version, snapshot invalid or its check failing) it is a
\* fresh empty pack and the only trace of the failure is a log line
C11_PackPromiseResolvesToVersion ==
    /\ packPromise.status \in {"none", "deserializing", "checking", "resolved"}
    /\ packPromise.status = "resolved" => pack.k = "Pack" /\ pack.version = Version
    /\ JustResolved =>
          /\ lastCall.op = "constructor"
          /\ Reusable => /\ pack.etags = packFile.etags
                         /\ pack.lastAccess = packFile.lastAccess
                         /\ pack.buildSnapshot = packFile.buildSnapshot
          /\ ~Reusable => pack = NewPack(Version)

\* S5: a pack of another version was persisted and the strategy resolved to a
\* fresh pack
C11_Witness ==
    /\ JustResolved
    /\ packFile.k = "Pack"
    /\ packFile.version = OlderVersion
    /\ packFile.etags["i1"] = Etag1
    /\ pack = NewPack(Version)

\* what the pack file would hold of the pack in memory
InMemory(p) ==
    [etags |-> p.etags, entries |-> [id \in Ids |-> SerializedEntry(p, id)],
     lastAccess |-> p.lastAccess, buildSnapshot |-> p.buildSnapshot]

\* C12: whenever the strategy has a pack, pack.invalid is true exactly when the
\* etags, content, lastAccess or buildSnapshot of the pack in memory differ
\* from what was last read from or written to the pack file
C12_InvalidIffDiffersFromDisk ==
    packPromise.status = "resolved" => (pack.invalid <=> InMemory(pack) # packBase)

AfterAllStoredCalled == lastCall.op = "afterAllStored"

\* the identifier was not used since the last rollup and was last accessed
\* more than two days before the call
OlderThanTwoDays(before, id) ==
    /\ id \notin before.used
    /\ before.lastAccess[id] # Absent
    /\ now - before.lastAccess[id].v > 2 * 24 * 60 * 60 * 1000

\* C13: afterAllStored on a pack that is not invalid leaves the pack and the
\* pack file as they were; on an invalid pack it drops exactly the identifiers
\* older than two days from etags, content and lastAccess and then writes the
\* pack so collected, or, when the write fails, logs a warning and leaves the
\* file alone; its promise is never rejected
C13_AfterAllStoredCollectsThenWrites ==
    AfterAllStoredCalled =>
        LET before == lastCall.before IN
        /\ ~lastCall.rejected
        /\ ~before.invalid =>
              /\ lastCall.write = "none"
              /\ pack = before
              /\ packFile = lastCall.fileBefore
        /\ before.invalid =>
              /\ lastCall.write \in {"written", "failed"}
              /\ pack.used = {}
              /\ \A id \in Ids :
                    IF OlderThanTwoDays(before, id)
                    THEN /\ pack.etags[id] = Absent
                         /\ pack.content[id] = Absent
                         /\ pack.lastAccess[id] = Absent
                    ELSE /\ pack.etags[id] = before.etags[id]
                         /\ pack.content[id] = before.content[id]
              /\ lastCall.write = "written" =>
                    /\ packFile.k = "Pack"
                    /\ packFile.version = pack.version
                    /\ packFile.etags = pack.etags
                    /\ packFile.lastAccess = pack.lastAccess
                    /\ packFile.buildSnapshot = pack.buildSnapshot
                    /\ \A id \in Ids : (packFile.entries[id] = Absent) <=> (pack.content[id] = Absent)
              /\ lastCall.write = "failed" =>
                    /\ packFile = lastCall.fileBefore
                    /\ lastCall.logged = "warn"

\* an invalid pack with an identifier more than two days old was collected
\* and written without that identifier
C13_Witness ==
    /\ AfterAllStoredCalled
    /\ lastCall.before.invalid
    /\ lastCall.write = "written"
    /\ \E id \in Ids :
          /\ OlderThanTwoDays(lastCall.before, id)
          /\ lastCall.before.etags[id] # Absent
          /\ lastCall.fileBefore.k = "Pack"
          /\ lastCall.fileBefore.etags[id] # Absent
          /\ packFile.etags[id] = Absent
          /\ packFile.entries[id] = Absent

RestoreCalled == lastCall.op = "restore"

\* the etag the pack held for the identifier of the last call is the one the
\* call gave
Hit == lastCall.before.etags[lastCall.id] = lastCall.etag

\* the content the pack held for the identifier of the last call was a lazy
\* loader
WasLazy == lastCall.before.content[lastCall.id].k = "function"

\* C14: restore, that is get, of an identifier that has no etag or another
\* etag yields undefined and leaves the pack, used included, as it was;
\* otherwise the identifier is in used afterwards and the result is the stored
\* data, or for a lazy loader the data of the loaded entry, unpacked as not
\* currently inline: data of at most MAX_INLINE_SIZE replaces the loader and
\* makes the pack invalid, larger data leaves the loader in place, and an
\* entry without data marks the identifier unserializable
C14_GetMarksUsedAndUnpacks ==
    RestoreCalled =>
        LET before == lastCall.before
            id == lastCall.id
        IN  /\ ~Hit => lastCall.result = Undefined /\ pack = before
            /\ Hit =>
                  /\ pack.used = before.used \cup {id}
                  /\ pack.etags = before.etags
                  /\ ~WasLazy => /\ lastCall.result = before.content[id]
                                 /\ pack = [before EXCEPT !.used = @ \cup {id}]
                  /\ WasLazy =>
                        LET entry == before.content[id].entry IN
                        /\ lastCall.result = entry.data
                        /\ IF entry.data = Undefined
                           THEN /\ id \in pack.unserializable
                                /\ pack.invalid = before.invalid
                           ELSE /\ pack.lastSizes[id] = entry.size
                                /\ IF entry.size.v <= 20000
                                   THEN pack.content[id] = entry.data /\ pack.invalid
                                   ELSE /\ pack.content[id] = before.content[id]
                                        /\ pack.invalid = before.invalid

\* a lazy entry was restored: its data came back and the identifier is used
C14_Witness ==
    /\ RestoreCalled
    /\ Hit
    /\ WasLazy
    /\ lastCall.id \notin lastCall.before.used
    /\ lastCall.result = DataBig
    /\ lastCall.id \in pack.used

CollectGarbageCalled == lastCall.op = "collectGarbage"

\* C15: after collectGarbage(maxAge), maxAge >= 0, used is empty; an
\* identifier that was in used is kept, with the current time as its
\* lastAccess; any other identifier is kept exactly when the current time
\* less its lastAccess is at most maxAge; and an identifier that is dropped is
\* dropped from lastAccess, etags and content together
C15_CollectGarbageKeepsUsed ==
    CollectGarbageCalled /\ lastCall.maxAge >= 0 =>
        LET before == lastCall.before IN
        /\ pack.used = {}
        /\ \A id \in before.used :
              /\ pack.lastAccess[id] = Num(now)
              /\ pack.etags[id] = before.etags[id]
              /\ pack.content[id] = before.content[id]
        /\ \A id \in Ids \ before.used :
              before.lastAccess[id] # Absent =>
                 IF now - before.lastAccess[id].v <= lastCall.maxAge
                 THEN /\ pack.lastAccess[id] = before.lastAccess[id]
                      /\ pack.etags[id] = before.etags[id]
                      /\ pack.content[id] = before.content[id]
                 ELSE /\ pack.lastAccess[id] = Absent
                      /\ pack.etags[id] = Absent
                      /\ pack.content[id] = Absent

StoreCalled == lastCall.op = "store"

\* the entry the pack file holds for the identifier was written without data
WrittenWithoutData(written) == written # Absent /\ written.entry.data = Undefined

InlineAboveThreshold(written) ==
    /\ written # Absent
    /\ written.entry.data # Undefined
    /\ written.tier = "inline"
    /\ written.entry.size.v > 20000

\* the entry was written lazy with data of at most MAX_INLINE_SIZE
LazyUpToThreshold(written) ==
    /\ written # Absent
    /\ written.entry.data # Undefined
    /\ written.tier = "lazy"
    /\ written.entry.size.v <= 20000

\* C17 as stated: a pack read from a file with an entry written inline above
\* the threshold, or lazy at or below it, is invalid once it is loaded
C17_StraddlingEntryInvalidatesOnLoad ==
    JustResolved /\ Reusable =>
        \A id \in Ids :
           InlineAboveThreshold(packFile.entries[id]) \/ LazyUpToThreshold(packFile.entries[id])
              => pack.invalid

\* C17 amended: a pack read from a file with an entry written inline above the
\* threshold is invalid once it is loaded; an entry written lazy at or below
\* the threshold makes the pack invalid when get loads it
C17_StraddlingEntryInvalidatesWhenUnpacked ==
    /\ JustResolved /\ Reusable =>
          \A id \in Ids : InlineAboveThreshold(packFile.entries[id]) => pack.invalid
    /\ RestoreCalled /\ Hit /\ WasLazy =>
          LET entry == lastCall.before.content[lastCall.id].entry IN
          entry.data # Undefined /\ entry.size.v <= 20000 =>
              /\ pack.invalid
              /\ pack.content[lastCall.id] = entry.data

\* a pack that was not invalid became invalid when get loaded a lazy entry of
\* at most MAX_INLINE_SIZE
C17_Witness ==
    /\ RestoreCalled
    /\ Hit
    /\ WasLazy
    /\ ~lastCall.before.invalid
    /\ lastCall.result = DataSmall
    /\ pack.invalid

----------------------------------------------------------------------------
(* Claims about the accuracy estimate *)

TimestampRead == lastCall.op = "readFileTimestamp"

C19_AccuracyNeverGrows ==
    /\ [](FS_ACCURACY \in {1, 10, 100, 1000, 2000})
    /\ [][FS_ACCURACY' <= FS_ACCURACY]_vars

\* the estimate came down step by step to 1
C19_Witness ==
    /\ TimestampRead
    /\ lastCall.before = 10
    /\ FS_ACCURACY = 1
    /\ \E p \in Paths : _fileTimestamps[p].k = "entry" /\ _fileTimestamps[p].safeTime = 100 + 100
    /\ \E p \in Paths : _fileTimestamps[p].k = "entry" /\ _fileTimestamps[p].safeTime = 1000 + 1000

----------------------------------------------------------------------------
(* Claims about context hashes *)

\* what fs.readdir, fs.stat and fs.readFile answered for a path
Readdir(dir) == fsAnswers["contextHashQueue"][dir]
StatOf(path) == fsAnswers["stat"][path]
ReadFileOf(path) == fsAnswers["fileHashQueue"][path]

\* the entries of a directory whose name does not begin with a dot
NonHidden(dir) ==
    {Readdir(dir).v[i] : i \in {j \in 1..Len(Readdir(dir).v) : Readdir(dir).v[j][1] # "."}}

\* the elements of a set of names in ascending order
Ascending(names) ==
    CHOOSE s \in Orders(names) : \A i, j \in 1..Len(s) : i < j => Before(s[i], s[j])

\* the directory was listed, every visible entry of it was looked at, and no
\* call failed or found a file gone: the tree beneath the directory is known
RECURSIVE TreeKnown(_)
TreeKnown(dir) ==
    /\ Readdir(dir).k = "names"
    /\ \A name \in NonHidden(dir) :
          LET child == join(dir, name) IN
          /\ StatOf(child).k = "stat"
          /\ StatOf(child).isFile => ReadFileOf(child).k = "content"
          /\ ~StatOf(child).isFile /\ StatOf(child).isDirectory =>
                \/ Readdir(child) = Err("ENOENT")
                \/ TreeKnown(child)

\* the digest over the sorted non-hidden names followed by the hash of each in
\* that order: the hash of the content for a file, the context hash for a
\* directory (nothing for one that is gone), nothing for anything else
RECURSIVE TreeHash(_)
TreeHash(dir) ==
    LET names == Ascending(NonHidden(dir))
        ChildHash(name) ==
            LET child == join(dir, name) IN
            IF StatOf(child).isFile THEN Digest(ReadFileOf(child).v).v
            ELSE IF StatOf(child).isDirectory /\ Readdir(child).k = "names" THEN TreeHash(child).v
            ELSE ""
    IN  Digest(UpdateAll([i \in 1..Len(names) |-> NameString(names[i])]
                         \o [i \in 1..Len(names) |-> ChildHash(names[i])]))

\* C20: once the tree beneath a directory has been read, the context hash
\* stored for the directory is the digest over its sorted non-hidden names
\* followed by the hashes of those entries in the same order, whatever the
\* order in which readdir listed them and whether or not it listed a hidden
\* entry
C20_ContextHashOfSortedVisibleNames ==
    \A dir \in {PathD, PathDS} :
        Readdir(dir) # NotRun /\ TreeKnown(dir) => _contextHashes[dir] = TreeHash(dir)

\* readdir listed /d with the subdirectory first, then a hidden entry, then
\* the file; the hash of /d is the digest over "f", "s" and their hashes and
\* createSnapshot was called back with it
C20_Witness ==
    /\ Readdir(PathD) = Names(<<NameS, NameHidden, NameF>>)
    /\ Readdir(PathDS) = Names(<<NameHidden, NameG>>)
    /\ TreeKnown(PathD)
    /\ StatOf(PathDSG).isFile
    /\ _contextHashes[PathDS] = Digest("g,md4(c1),")
    /\ _contextHashes[PathD] = Digest("f,s,md4(c1),md4(g,md4(c1),),")
    /\ Len(createCallbacks) = 1

-----------------------------------------------------------------------------
(* C21: an entry of the directory fails *)

\* fs.stat failed for a visible entry of the directory, or the read of a file
\* in it failed, or the read of a subdirectory of it called back with an error
ChildFailed(dir) ==
    /\ Readdir(dir).k = "names"
    /\ \E name \in NonHidden(dir) :
          LET child == join(dir, name) IN
          \/ StatOf(child).k = "Error"
          \/ /\ StatOf(child).k = "stat"
             /\ StatOf(child).isFile
             /\ ReadFileOf(child).k = "Error"
             /\ ReadFileOf(child).code # "ENOENT"
          \/ /\ StatOf(child).k = "stat"
             /\ ~StatOf(child).isFile /\ StatOf(child).isDirectory
             /\ contextHashQueue.entries[child].state = "done"
             /\ Truthy(contextHashQueue.entries[child].error)

\* the read of the directory called back with an error
ReportedError(dir) ==
    /\ contextHashQueue.entries[dir].state = "done"
    /\ Truthy(contextHashQueue.entries[dir].error)

\* createSnapshot was called back with a snapshot that holds the given value
\* as the context hash of the directory
SnapshotHolds(dir, value) ==
    /\ Len(createCallbacks) = 1
    /\ createCallbacks[1].snapshot.contextHashes.k = "map"
    /\ createCallbacks[1].snapshot.contextHashes.m[dir] = value

\* C21: when the stat or the hash of an entry of a directory fails during the
\* context-hash read of the directory, the read calls its waiters back with an
\* error, createSnapshot of /d records ERROR for it, and no digest is stored
\* for the directory
C21_ChildErrorFailsTheRead ==
    \A dir \in {PathD, PathDS} :
        ChildFailed(dir) =>
            /\ ReportedError(dir)
            /\ _contextHashes[dir] = Undefined
            /\ dir = PathD => SnapshotHolds(PathD, Error)

-----------------------------------------------------------------------------
(* C22: the parallelism of the context-hash queue *)

\* the read of the directory has called back
ReadCompleted(dir) == contextHashQueue.entries[dir].state = "done"

\* no read of the context-hash queue is queued or under way
AllReadsCompleted ==
    /\ ReadCompleted(PathD)
    /\ \A p \in Paths : contextHashQueue.entries[p].state \in {"none", "done"}

\* createSnapshot of /d was called and every call of the file system made since
\* has been answered: nothing is left that could call back
Settled ==
    /\ cs.status # "idle"
    /\ \A p \in Paths :
          /\ ~(Processing(contextHashQueue, p) /\ Readdir(p) = NotRun)
          /\ ~Processing(fileHashQueue, p)
          /\ \A index \in 1..Len(contextReads[p].stats) : contextReads[p].stats[index] # NotRun

\* C22: with the base parallelism of 2 the context-hash read of /d completes
\* (it is never left waiting with no call of the file system outstanding), the
\* parallelism of the queue is never below the base value, and it is the base
\* value again once all reads have completed
C22_ReadCompletesAtBaseParallelism ==
    /\ Settled => ReadCompleted(PathD)
    /\ contextHashQueue.parallelism >= ContextHashParallelism
    /\ AllReadsCompleted => contextHashQueue.parallelism = ContextHashParallelism

-----------------------------------------------------------------------------
(* C23: resolveBuildDependencies calls back exactly once *)

\* resolveBuildDependencies was called, nothing waits in its queue and no
\* callback of resolve or of the file system is outstanding
ResolveSettled == rbd.status = "called" /\ rbd.tasks = <<>> /\ rbd.running = <<>>

\* no two elements of the sequence are equal
NoRepeat(s) == \A i, j \in 1..Len(s) : i # j => s[i] # s[j]

\* the dependencies items pushed by file and directory items
PushedFromVisited ==
    SelectSeq(rbd.pushed,
              LAMBDA push : /\ push.from.type \in {"file", "directory"}
                            /\ push.item.type \in {"file-dependencies",
                                                   "directory-dependencies"})

\* C23: resolveBuildDependencies calls its callback exactly once, with the
\* sets when the queue has drained or with the first error and never again;
\* each canonical path is inserted into files or directories at most once and
\* has its dependencies item pushed by a file or directory item at most once,
\* and the search for package.json ascends only to strictly shorter paths
C23_ResolveCallsBackOnce ==
    /\ Len(rbd.callbacks) <= 1
    /\ ResolveSettled => Len(rbd.callbacks) = 1
    /\ \A i \in 1..Len(rbd.callbacks) :
          rbd.callbacks[i].err = Null =>
              /\ ResolveSettled
              /\ rbd.callbacks[i].result.files = rbd.files
              /\ rbd.callbacks[i].result.directories = rbd.directories
    /\ NoRepeat(rbd.inserted)
    /\ NoRepeat(PushedFromVisited)
    /\ \A i \in 1..Len(rbd.pushed) :
          LET push == rbd.pushed[i] IN
          push.from.type = "directory-dependencies"
              /\ push.item.type = "directory-dependencies"
              => Len(push.item.path) < Len(push.from.path)

-----------------------------------------------------------------------------
(* C24: the tier serialize writes an entry in *)

\* afterAllStored ran serialize
Serialized == AfterAllStoredCalled /\ lastCall.image # Undefined

\* what serialize wrote for the identifier follows the rule: nothing for an
\* identifier without content, the loader for a loader, and data inline
\* unless the size last recorded for it is above MAX_INLINE_SIZE
TierByLastSize(id) ==
    LET content == lastCall.collected.content[id]
        lastSize == lastCall.collected.lastSizes[id]
        written == lastCall.image.entries[id]
    IN  IF content = Absent THEN written = Absent
        ELSE IF content.k = "function"
        THEN written.tier = "lazy" /\ written.entry = content.entry
        ELSE /\ written.tier \in {"inline", "lazy"}
             /\ written.tier = "inline" <=> ~(lastSize # Absent /\ lastSize.v > MAX_INLINE_SIZE)

\* before the call the pack held, for the identifier, data above the threshold
\* that a set had just put in place of an entry held inline
ReplacedByBigger(before, id) ==
    /\ id \in before.used
    /\ before.content[id] # Absent
    /\ before.content[id].k = "data"
    /\ before.content[id].serializable
    /\ before.content[id].size > MAX_INLINE_SIZE
    /\ ~(before.lastSizes[id] # Absent /\ before.lastSizes[id].v > MAX_INLINE_SIZE)

\* before the call the pack held the identifier as it was read back from an
\* inline entry above the threshold
ReadBackInlineBigger(before, id) ==
    /\ lastCall.fileBefore.k = "Pack"
    /\ InlineAboveThreshold(lastCall.fileBefore.entries[id])
    /\ before.content[id] # Absent
    /\ before.content[id].k # "function"
    /\ before.lastSizes[id] # Absent
    /\ before.lastSizes[id].v > MAX_INLINE_SIZE

\* serialize follows the tier rule; an entry replaced by data above the
\* threshold is written inline; read back, it is inline and the pack invalid
TierRuleAndReadBack ==
    /\ Serialized => \A id \in Ids : TierByLastSize(id)
    /\ Serialized =>
          \A id \in Ids :
             ReplacedByBigger(lastCall.before, id) => InlineAboveThreshold(lastCall.image.entries[id])
    /\ JustResolved /\ Reusable =>
          \A id \in Ids :
             InlineAboveThreshold(packFile.entries[id]) =>
                 /\ pack.content[id] = packFile.entries[id].entry.data
                 /\ pack.lastSizes[id] = packFile.entries[id].entry.size
                 /\ pack.invalid

\* C24 as stated: serialize writes a loader as that loader and data inline iff
\* the size last recorded is not above MAX_INLINE_SIZE; an inline entry
\* replaced by data above the threshold is written inline, is read back inline
\* with invalid set after the restart, and the next afterAllStored writes it
\* as a lazy entry
C24_ReadBackEntryIsWrittenLazy ==
    /\ TierRuleAndReadBack
    /\ AfterAllStoredCalled =>
          \A id \in Ids :
             ReadBackInlineBigger(lastCall.before, id) =>
                 /\ Serialized
                 /\ lastCall.image.entries[id] # Absent
                 /\ lastCall.image.entries[id].tier = "lazy"

\* C24 amended: the same, except that the next afterAllStored writes the entry
\* as a lazy entry only if it still holds it: an entry not used for more than
\* two days is dropped by collectGarbage and not written at all
C24_ReadBackEntryIsWrittenLazyUnlessCollected ==
    /\ TierRuleAndReadBack
    /\ AfterAllStoredCalled =>
          \A id \in Ids :
             ReadBackInlineBigger(lastCall.before, id) =>
                 /\ Serialized
                 /\ IF OlderThanTwoDays(lastCall.before, id)
                    THEN lastCall.image.entries[id] = Absent
                    ELSE /\ lastCall.image.entries[id] # Absent
                         /\ lastCall.image.entries[id].tier = "lazy"

\* S6: i1 was held inline, was replaced by data above the threshold and
\* written inline; the process was started again, read it back inline, and
\* afterAllStored has now written it as a lazy entry
C24_Witness ==
    /\ restarts = 1
    /\ AfterAllStoredCalled
    /\ lastCall.write = "written"
    /\ ReadBackInlineBigger(lastCall.before, "i1")
    /\ lastCall.before.content["i1"] = DataBig
    /\ packFile.entries["i1"].tier = "lazy"
    /\ packFile.entries["i1"].entry = PackEntry(DataBig, Num(MAX_INLINE_SIZE + 1))

-----------------------------------------------------------------------------
(* C25: set while a lazy load is pending *)

\* set took effect for the identifier while a lazy load of it was pending
SetDuringLoad(id) == loads.lastSet[id] # Absent /\ loads.lastSet[id].duringLoad

\* C25: after set(id, etag2, data2) was called while a lazy load of id was
\* pending, the completion of the load leaves the content set stored in place,
\* and get(id, etag2) returns data2, whether the load has completed or not
C25_SetWinsOverPendingLoad ==
    packPromise.status = "resolved" =>
        \A id \in Ids :
            SetDuringLoad(id) =>
                /\ pack.content[id] = loads.lastSet[id].data
                /\ get(pack, id, loads.lastSet[id].etag).result = loads.lastSet[id].data

-----------------------------------------------------------------------------
(* C26: a seeded timestamp and a read under way *)

\* C26: once addFileTimestamps has stored an entry for a path, the entry is
\* what _fileTimestamps holds for the path, so that createSnapshot and
\* checkSnapshotValid use it, and what every getFileTimestamp called since is
\* called back with, until the path is seeded again; a read of the path that
\* was under way changes nothing of this
C26_SeededEntryIsKept ==
    /\ \A path \in SeedPaths :
          seeds.seeded[path] # Absent => _fileTimestamps[path] = seeds.seeded[path]
    /\ \A i \in 1..Len(seeds.callbacks) :
          LET called == seeds.callbacks[i] IN
          called.seeded # Absent => called.err = Null /\ called.result = called.seeded

----------------------------------------------------------------------------
(* Claims about a snapshot that is checked where it was created *)

\* the maps of a snapshot whose "error" entries the round trip excludes
RoundTripMaps == {"fileHashes", "contextHashes", "missingTimestamps"}

NoErrorEntry(snap) ==
    \A f \in RoundTripMaps :
        snap[f].k = "map" => \A p \in MapKeys(snap[f].m) : snap[f].m[p] # Error

\* checkSnapshotValid was called with the snapshot createSnapshot produced
CheckedCreated ==
    /\ ck.status # "idle"
    /\ createCallbacks # <<>>
    /\ ck.snapshot = createCallbacks[1].snapshot
    /\ ck.snapshot.startTime = Undefined

\* C27: a snapshot createSnapshot produced in hash mode with no startTime,
\* with no "error" entry in fileHashes, contextHashes and missingTimestamps,
\* is reported valid (once, and never invalid) by checkSnapshotValid on the
\* same FileSystemInfo while no file changes, whatever the order in which the
\* reads of createSnapshot completed
C27_CreatedSnapshotIsValid ==
    (CheckedCreated /\ NoErrorEntry(ck.snapshot))
        => checkCallbacks = <<[err |-> Null, result |-> TRUE]>>

\* a checked snapshot with the hash of a file that was read on a cache miss,
\* the null of a directory that does not exist and an entry of a path
\* expected missing
C27_Witness ==
    /\ CheckedCreated
    /\ NoErrorEntry(ck.snapshot)
    /\ ck.snapshot.fileHashes.k = "map"
    /\ ck.snapshot.contextHashes.k = "map"
    /\ ck.snapshot.missingTimestamps.k = "map"
    /\ ck.snapshot.contextHashes.m[PathD] = Null
    /\ fsAnswers["fileHashQueue"][PathA] # NotRun
    /\ checkCallbacks = <<[err |-> Null, result |-> TRUE]>>

====
